---- MODULE Spec2Model ----
(***************************************************************************)
(* Sequelizer: the Fast5 container codec (core/fast5_io.c), the channel    *)
(* and calibration decoders (core/fast5_io.c, core/fast5_convert.c) and    *)
(* the per-read summary row (core/fast5_stats.c).                          *)
(*                                                                         *)
(* Strings are sequences of character codes.  A C pointer or an optional   *)
(* HDF5 object is a sequence of at most one element: Null is the empty     *)
(* sequence, Ptr(x) the one-element sequence holding x.                    *)
(***************************************************************************)
EXTENDS Integers, Sequences, FiniteSets, TLC

VARIABLES
  file,            \* the container on disk (Null: no file HDF5 can open)
  written,         \* arguments of the last seq_write_fast5_* call
  alive,           \* FALSE once errx() has terminated the process
  call,            \* the reader call made last and its arguments
  is_multi_read,   \* the local of that name in the reader called last
  meta,            \* array returned by read_fast5_metadata_with_enhancer
  meta_count,      \* *metadata_count after that call
  signal,          \* buffer returned by read_fast5_signal
  signal_length,   \* *signal_length after that call
  ret,             \* value returned by the last seq_write_fast5_* call
  \* channel decoding of one read (core/fast5_convert.c)
  channel_attr,    \* the attribute channel_id/channel_number as stored
  filename,        \* files[i], the path of the source file
  channel_number,  \* metadata->channel_number
  enh_pc,          \* position in extract_raw_signals for this read
  \* calibration of one read and its summary row
  cal_group,       \* the channel_id group as stored (Null when missing)
  offset,          \* metadata->offset
  range,           \* metadata->range
  digitisation,    \* metadata->digitisation
  calibration_available,
  raw_signal,      \* the int16 samples handed to write_summary_row
  median_pa,       \* the median_pa column of the row, as a fraction
  mad_pa,          \* the mad_pa column of the row, as a fraction
  cal_pc,          \* position in the metadata/summary pass for this read
  \* the HDF5 library under the writers
  fault,           \* the creation call that failed during the last write
  \* dataset statistics of one batch (core/fast5_stats.c)
  results,         \* per file: the metadata array, its count, the file size
  stats,           \* the fast5_dataset_statistics_t returned (Null before)
  summary,         \* the fast5_analysis_summary_t returned (Null before)
  stats_pc,        \* position in the statistics pass
  \* the batch loops over a list of files
  files,           \* files[]: what the metadata reader makes of each file
  output_file,     \* the output argument (Null when not given)
  dir_exists,      \* whether the output directory exists
  dir_failed,      \* whether create_directory has failed
  batch_op,        \* the loop that runs
  batch_i,         \* its position i (1-based; past the end when done)
  skipped,         \* files reported by warnx or marked as failed
  processed,       \* files whose rows, signals or results were produced
  \* file discovery (find_fast5_files of core/fast5_io.c)
  input_path,      \* what the file system holds at input_path
  recursive,       \* the recursive argument
  found,           \* the list returned (Null for NULL)
  found_count,     \* *count after the call
  disc_pc,         \* "start" before the call, "done" after it
  \* validation of a container
  has_structure,   \* value returned by has_fast5_structure (Null before)
  \* the k-mer model loader (core/kmer_model_loader.c)
  model_file,      \* the first model file found under models_dir/model_name
  model,           \* the kmer_model_t returned (Null for NULL)
  kmer_pc,         \* "start" before the call, "done" after it
  \* the k-mer signal generator (squiggle_kmer of core/seqgen_models.c)
  cached_model,    \* static cached_model (Null for NULL)
  cached_model_id, \* static cached_model_id
  sq_params,       \* the arguments of the last call
  squiggle,        \* the tensor it returned (Null for NULL)
  \* the metadata arrays held by the callers of the metadata reader
  lc_files,        \* the files of the run: Null (unreadable) or a container
  lc_caller,       \* the caller that ran ("none" before)
  allocated,       \* the arrays the reader returned, by call site and file
  released,        \* the arrays passed to free_fast5_metadata, in order
  \* diagnostic reporting of the HDF5 library during probes
  err_auto,        \* whether the default error stack reports automatically
  auto_before,     \* that setting when the probing operation was entered
  probe_op,        \* the probing operation that ran ("none" before)
  probe_trace,     \* its library calls, each with the setting in force
  \* HDF5 handles held by the readers over a batch of files
  hd_files,        \* the files of the batch: Null (not a container) or content
  hd_i,            \* the file the batch is at (0 before the first)
  open_handles,    \* the handles open, each with the file it was opened on
  hd_events,       \* the opens and closes of the last reader call
  hd_sound,        \* no close of a handle that was not open, no open of a
                   \* file while a handle on another file was open
  hd_call,         \* the last reader call: its operation and its environment
  \* the rows the exporters write for one file
  ex_file,         \* the file: Null (not a container) or its content
  ex_op,           \* the exporter that ran ("none" before)
  ex_rows,         \* its rows: the record index and the samples written
  \* the three aggregators over one batch of results
  ag_results,      \* results[] / results_count[] / filenames[] of the batch
  ag_basic,        \* the summary of calculate_basic_summary (Null before)
  ag_comprehensive,\* the summary of calculate_comprehensive_summary
  ag_stats         \* the summary of calc_signal_stats and
                   \* calc_analysis_summary_with_enhancer

codec_vars == <<file, written, alive, call, is_multi_read, meta, meta_count,
                signal, signal_length, ret>>

channel_vars == <<channel_attr, filename, channel_number, enh_pc>>

calib_vars == <<cal_group, offset, range, digitisation, calibration_available,
                raw_signal, median_pa, mad_pa, cal_pc>>

fault_vars == <<fault>>

stats_vars == <<results, stats, summary, stats_pc>>

batch_vars == <<files, output_file, dir_exists, dir_failed, batch_op, batch_i,
                skipped, processed>>

disc_vars == <<input_path, recursive, found, found_count, disc_pc>>

probe_vars == <<has_structure>>

kmer_vars == <<model_file, model, kmer_pc>>

sq_vars == <<cached_model, cached_model_id, sq_params, squiggle>>

life_vars == <<lc_files, lc_caller, allocated, released>>

diag_vars == <<err_auto, auto_before, probe_op, probe_trace>>

handle_vars == <<hd_files, hd_i, open_handles, hd_events, hd_sound, hd_call>>

export_vars == <<ex_file, ex_op, ex_rows>>

aggregate_vars == <<ag_results, ag_basic, ag_comprehensive, ag_stats>>

tail_vars == <<export_vars, aggregate_vars>>

late_vars == <<sq_vars, life_vars, diag_vars, handle_vars, tail_vars>>

aux_vars == <<fault_vars, stats_vars, batch_vars, disc_vars, probe_vars, kmer_vars>>

vars == <<codec_vars, channel_vars, calib_vars, aux_vars, late_vars>>

----------------------------------------------------------------------------
(* Bounds *)

MaxReads == 2

----------------------------------------------------------------------------
(* Pointers, optional objects, strings *)

Null == <<>>

Ptr(x) == <<x>>

IsNull(p) == p = <<>>

Deref(p) == p[1]

Min(a, b) == IF a < b THEN a ELSE b

RECURSIVE SeqsUpTo(_, _)
SeqsUpTo(S, n) ==
  IF n = 0 THEN {<<>>}
  ELSE LET shorter == SeqsUpTo(S, n - 1)
       IN  shorter \cup {Append(s, x) : s \in {t \in shorter : Len(t) = n - 1}, x \in S}

STR_read_ == <<114, 101, 97, 100, 95>>

STR_Read_ == <<82, 101, 97, 100, 95>>

STR_Raw == <<82, 97, 119>>

STR_UniqueGlobalKey == <<85, 110, 105, 113, 117, 101, 71, 108, 111, 98, 97, 108, 75, 101, 121>>

STR_single_read == "single-read"

STR_multi_read == "multi-read"

\* strncmp(s, p, strlen(p)) == 0
HasPrefix(s, p) == Len(s) >= Len(p) /\ SubSeq(s, 1, Len(p)) = p

\* strcmp(a, b) < 0: the order of HDF5's name index
RECURSIVE LexLess(_, _)
LexLess(a, b) ==
  IF b = <<>> THEN FALSE
  ELSE IF a = <<>> THEN TRUE
  ELSE IF Head(a) # Head(b) THEN Head(a) < Head(b)
  ELSE LexLess(Tail(a), Tail(b))

\* printf("%d") of a non-negative int
RECURSIVE FormatNat(_)
FormatNat(n) ==
  IF n < 10 THEN <<48 + n>> ELSE Append(FormatNat(n \div 10), 48 + (n % 10))

\* printf("%d")
FormatInt(n) == IF n < 0 THEN <<45>> \o FormatNat(0 - n) ELSE FormatNat(n)

----------------------------------------------------------------------------
(* The container: what the HDF5 calls of fast5_io.c see of a file.         *)
(*   file_type : the root attribute "file_type" (Null when absent)         *)
(*   root      : the root group's children in name order; body is the      *)
(*               content of <child>/Raw (Null when that cannot be opened)  *)
(*   reads     : the children of /Raw/Reads in name order (Null when the   *)
(*               path does not exist); body is the read group's content    *)
(* A read body holds the attributes read_id, duration, read_number and the *)
(* Signal dataset (data and whether H5Dread succeeds on it).               *)
(***************************************************************************)

Child(name, body) == [name |-> name, body |-> body]

ReadBody(read_id, duration, read_number, sig) ==
  [read_id |-> read_id, duration |-> duration, read_number |-> read_number,
   signal |-> sig]

Dataset(data, readable) == [data |-> data, readable |-> readable]

Container(file_type, root, reads) ==
  [file_type |-> file_type, root |-> root, reads |-> reads]

\* H5Gcreate2 / H5Gget_objname_by_idx: children are enumerated by name
RECURSIVE InsertChild(_, _)
InsertChild(children, c) ==
  IF children = <<>> THEN <<c>>
  ELSE IF LexLess(c.name, Head(children).name) THEN <<c>> \o children
  ELSE <<Head(children)>> \o InsertChild(Tail(children), c)

HasChild(children, name) == \E i \in 1..Len(children) : children[i].name = name

\* a fraction num/den, kept unreduced
Fraction(num, den) == [num |-> num, den |-> den]

NoChannelAttr == [class |-> "none", value |-> 0, size |-> 0, bytes |-> <<>>, readable |-> FALSE]

NoWrite == [mode |-> "none", names |-> <<>>, bufs |-> <<>>]

NoCall == [op |-> "none", read_id |-> Null, alloc_ok |-> TRUE]

CodecIdle ==
  /\ written = NoWrite
  /\ alive = TRUE
  /\ call = NoCall
  /\ is_multi_read = FALSE
  /\ meta = Null
  /\ meta_count = 0
  /\ signal = Null
  /\ signal_length = 0
  /\ ret = 0

ChannelIdle ==
  /\ channel_attr = NoChannelAttr
  /\ filename = <<>>
  /\ channel_number = Null
  /\ enh_pc = "idle"

NoFault == [site |-> "none", read |-> 0]

FaultIdle == fault = NoFault

StatsIdle ==
  /\ results = <<>>
  /\ stats = Null
  /\ summary = Null
  /\ stats_pc = "idle"

BatchIdle ==
  /\ files = <<>>
  /\ output_file = Null
  /\ dir_exists = FALSE
  /\ dir_failed = FALSE
  /\ batch_op = "none"
  /\ batch_i = 1
  /\ skipped = {}
  /\ processed = {}

DiscIdle ==
  /\ input_path = [kind |-> "missing", name |-> <<>>, node |-> <<>>]
  /\ recursive = FALSE
  /\ found = Null
  /\ found_count = 0
  /\ disc_pc = "idle"

ProbeIdle == has_structure = Null

KmerIdle ==
  /\ model_file = Null
  /\ model = Null
  /\ kmer_pc = "idle"

AuxIdle == FaultIdle /\ StatsIdle /\ BatchIdle /\ DiscIdle /\ ProbeIdle /\ KmerIdle

NoParams == [models_dir |-> <<>>, model_name |-> <<>>, kmer_size |-> 0, sequence |-> <<>>,
             sample_rate_khz |-> 0]

SquiggleIdle ==
  /\ cached_model = Null
  /\ cached_model_id = <<>>
  /\ sq_params = NoParams
  /\ squiggle = Null

LifeIdle ==
  /\ lc_files = <<>>
  /\ lc_caller = "none"
  /\ allocated = {}
  /\ released = <<>>

DiagIdle ==
  /\ err_auto = TRUE
  /\ auto_before = TRUE
  /\ probe_op = "none"
  /\ probe_trace = <<>>

NoReaderCall == [op |-> "none"]

HandleIdle ==
  /\ hd_files = <<>>
  /\ hd_i = 0
  /\ open_handles = <<>>
  /\ hd_events = <<>>
  /\ hd_sound = TRUE
  /\ hd_call = NoReaderCall

ExportIdle ==
  /\ ex_file = Null
  /\ ex_op = "none"
  /\ ex_rows = <<>>

AggregateIdle ==
  /\ ag_results = <<>>
  /\ ag_basic = Null
  /\ ag_comprehensive = Null
  /\ ag_stats = Null

TailIdle == ExportIdle /\ AggregateIdle

LateIdle == SquiggleIdle /\ LifeIdle /\ DiagIdle /\ HandleIdle /\ TailIdle

CalibIdle ==
  /\ cal_group = Null
  /\ offset = 0
  /\ range = 0
  /\ digitisation = 0
  /\ calibration_available = FALSE
  /\ raw_signal = <<>>
  /\ median_pa = Fraction(0, 1)
  /\ mad_pa = Fraction(0, 1)
  /\ cal_pc = "idle"

----------------------------------------------------------------------------
(* Container Writer *)

\* the inputs of the writers: read names and sample buffers (seq_tensor:
\* every dimension > 0, so a non-null buffer has at least one sample)
ReadNames == {<<97>>, <<98>>}

SampleBuffers == {<<7>>, <<8, 9>>}

WriterArgs ==
  {[names |-> nm, bufs |-> bf] :
     nm \in SeqsUpTo(ReadNames, MaxReads),
     bf \in SeqsUpTo({Null} \cup {Ptr(b) : b \in SampleBuffers}, MaxReads)}

\* (uint32_t)signal_length: the identity on every length a buffer of the
\* model has (the cast wraps only from 2^32 samples on)
U32(n) == n

\* the read group seq_write_fast5_single creates for read_idx
SingleReadGroup(read_idx, name, buf) ==
  Child(STR_Read_ \o FormatInt(read_idx),
        Ptr(ReadBody(Ptr(name), Ptr(U32(Len(buf))), Ptr(read_idx),
                     Ptr(Dataset(buf, TRUE)))))

\* the loop over read_idx of seq_write_fast5_single, from read i (1-based)
RECURSIVE WriteSingleReads(_, _, _, _)
WriteSingleReads(reads, names, bufs, i) ==
  IF i > Len(names) THEN reads
  ELSE IF IsNull(bufs[i]) THEN WriteSingleReads(reads, names, bufs, i + 1)
  ELSE WriteSingleReads(InsertChild(reads, SingleReadGroup(i - 1, names[i], Deref(bufs[i]))),
                        names, bufs, i + 1)

SingleContainer(names, bufs) ==
  Container(Ptr(STR_single_read),
            InsertChild(InsertChild(<<>>, Child(STR_Raw, Null)),
                        Child(STR_UniqueGlobalKey, Null)),
            Ptr(WriteSingleReads(<<>>, names, bufs, 1)))

\* MultiReadGroup with the read_id attribute left out of the Raw group
MultiReadGroup_NoReadId(read_idx, name, buf) ==
  Child(STR_read_ \o name,
        Ptr(ReadBody(Null, Ptr(U32(Len(buf))), Ptr(read_idx),
                     Ptr(Dataset(buf, TRUE)))))

\* the read group seq_write_fast5_multi creates: read_<name>/Raw
MultiReadGroup(read_idx, name, buf) ==
  Child(STR_read_ \o name,
        Ptr(ReadBody(Ptr(name), Ptr(U32(Len(buf))), Ptr(read_idx),
                     Ptr(Dataset(buf, TRUE)))))

\* the loop over read_idx of seq_write_fast5_multi; H5Gcreate2 fails on a
\* name that already exists and errx() ends the process with the file as
\* built so far
RECURSIVE WriteMultiReads(_, _, _, _)
WriteMultiReads(root, names, bufs, i) ==
  IF i > Len(names) THEN [root |-> root, exited |-> FALSE]
  ELSE IF IsNull(bufs[i]) THEN WriteMultiReads(root, names, bufs, i + 1)
  ELSE IF HasChild(root, STR_read_ \o names[i]) THEN [root |-> root, exited |-> TRUE]
  ELSE WriteMultiReads(InsertChild(root, MultiReadGroup(i - 1, names[i], Deref(bufs[i]))),
                       names, bufs, i + 1)

MultiContainer(root) == Container(Ptr(STR_multi_read), root, Null)

ResetReaders ==
  /\ call' = NoCall
  /\ is_multi_read' = FALSE
  /\ meta' = Null
  /\ meta_count' = 0
  /\ signal' = Null
  /\ signal_length' = 0

\* seq_write_fast5_single(filename, raw_signals, read_names, num_reads, rate)
seq_write_fast5_single ==
  /\ alive
  /\ \E a \in WriterArgs :
       /\ Len(a.names) = Len(a.bufs)
       /\ IF Len(a.names) <= 0
          THEN /\ ret' = -1
               /\ UNCHANGED <<file, written>>
          ELSE /\ ret' = 0
               /\ file' = Ptr(SingleContainer(a.names, a.bufs))
               /\ written' = [mode |-> "single", names |-> a.names, bufs |-> a.bufs]
  /\ ResetReaders
  /\ UNCHANGED <<alive, channel_vars, calib_vars, aux_vars, late_vars>>

\* seq_write_fast5_multi(filename, raw_signals, read_names, num_reads, rate)
seq_write_fast5_multi ==
  /\ alive
  /\ \E a \in WriterArgs :
       /\ Len(a.names) = Len(a.bufs)
       /\ IF Len(a.names) <= 0
          THEN /\ ret' = -1
               /\ UNCHANGED <<file, written, alive>>
          ELSE LET w == WriteMultiReads(<<>>, a.names, a.bufs, 1)
               IN  /\ file' = Ptr(MultiContainer(w.root))
                   /\ written' = [mode |-> "multi", names |-> a.names, bufs |-> a.bufs]
                   /\ alive' = ~w.exited
                   /\ ret' = IF w.exited THEN ret ELSE 0
  /\ ResetReaders
  /\ UNCHANGED <<channel_vars, calib_vars, aux_vars, late_vars>>

----------------------------------------------------------------------------
(* Schema detection and the Metadata Reader *)

\* "i < 5" in the root scan of the readers
ProbeLimit == 5

\* DetectMultiRead that looks at every root child
DetectMultiRead_AllChildren(c) ==
  IF ~IsNull(c.file_type) THEN TRUE
  ELSE \E i \in 1..Len(c.root) : HasPrefix(c.root[i].name, STR_read_)

\* the format detection block of read_fast5_metadata_with_enhancer and of
\* read_fast5_signal (the two blocks are the same text)
DetectMultiRead(c) ==
  IF ~IsNull(c.file_type) THEN TRUE
  ELSE \E i \in 1..Min(Len(c.root), ProbeLimit) : HasPrefix(c.root[i].name, STR_read_)

\* one fast5_metadata_t of the calloc'ed array, filled from a read's
\* attributes and the extent of its Signal dataset
MetaRecord(body, multi) ==
  [read_id       |-> body.read_id,
   duration      |-> IF IsNull(body.duration) THEN 0 ELSE Deref(body.duration),
   read_number   |-> IF IsNull(body.read_number) THEN 0 ELSE Deref(body.read_number),
   signal_length |-> IF IsNull(body.signal) THEN 0 ELSE U32(Len(Deref(body.signal).data)),
   is_multi_read |-> multi]

RECURSIVE CountReadGroups(_)
CountReadGroups(root) ==
  IF root = <<>> THEN 0
  ELSE (IF HasPrefix(Head(root).name, STR_read_) THEN 1 ELSE 0) + CountReadGroups(Tail(root))

\* the "process each read_ group" loop of read_multi_read_metadata_with_enhancer
RECURSIVE MultiRecords(_)
MultiRecords(root) ==
  IF root = <<>> THEN <<>>
  ELSE IF ~HasPrefix(Head(root).name, STR_read_) THEN MultiRecords(Tail(root))
  ELSE IF IsNull(Head(root).body) THEN MultiRecords(Tail(root))
  ELSE <<MetaRecord(Deref(Head(root).body), TRUE)>> \o MultiRecords(Tail(root))

read_multi_read_metadata_with_enhancer(c) ==
  IF CountReadGroups(c.root) = 0 THEN [metadata |-> Null, count |-> 0]
  ELSE LET recs == MultiRecords(c.root)
       IN  [metadata |-> Ptr(recs), count |-> Len(recs)]

\* the "process each read" loop of read_single_read_metadata_with_enhancer
RECURSIVE SingleRecords(_)
SingleRecords(reads) ==
  IF reads = <<>> THEN <<>>
  ELSE IF IsNull(Head(reads).body) THEN SingleRecords(Tail(reads))
  ELSE <<MetaRecord(Deref(Head(reads).body), FALSE)>> \o SingleRecords(Tail(reads))

read_single_read_metadata_with_enhancer(c) ==
  IF IsNull(c.reads) THEN [metadata |-> Null, count |-> 0]
  ELSE IF Len(Deref(c.reads)) = 0 THEN [metadata |-> Null, count |-> 0]
  ELSE LET recs == SingleRecords(Deref(c.reads))
       IN  [metadata |-> Ptr(recs), count |-> Len(recs)]

\* read_fast5_metadata_with_enhancer(filename, &metadata_count, enhancer)
read_fast5_metadata_with_enhancer ==
  /\ alive
  /\ call' = [op |-> "read_metadata", read_id |-> Null, alloc_ok |-> TRUE]
  /\ IF IsNull(file)
     THEN /\ meta' = Null
          /\ meta_count' = 0
          /\ is_multi_read' = FALSE
     ELSE LET c == Deref(file)
              multi == DetectMultiRead(c)
              r == IF multi THEN read_multi_read_metadata_with_enhancer(c)
                   ELSE read_single_read_metadata_with_enhancer(c)
          IN  /\ is_multi_read' = multi
              /\ meta' = r.metadata
              /\ meta_count' = r.count
  /\ signal' = Null
  /\ signal_length' = 0
  /\ UNCHANGED <<file, written, alive, ret, channel_vars, calib_vars, aux_vars, late_vars>>

----------------------------------------------------------------------------
(* Signal Reader *)

SignalResult(sig, len) == [signal |-> sig, signal_length |-> len]

\* "Open Signal dataset ... H5Dclose" of read_single_read_signal; alloc_ok
\* is the outcome of malloc, ds.readable that of H5Dread
SingleCopySignal(body, alloc_ok, st) ==
  IF IsNull(body.signal) THEN st
  ELSE LET ds == Deref(body.signal)
       IN  IF Len(ds.data) > 0
           THEN IF ~alloc_ok THEN SignalResult(Null, Len(ds.data))
                ELSE IF ds.readable THEN SignalResult(Ptr(ds.data), Len(ds.data))
                ELSE SignalResult(Null, 0)
           ELSE st

\* the search loop of read_single_read_signal, from child i
RECURSIVE SingleSignalLoop(_, _, _, _, _)
SingleSignalLoop(reads, i, read_id, alloc_ok, st) ==
  IF i > Len(reads) THEN st
  ELSE IF IsNull(reads[i].body) THEN SingleSignalLoop(reads, i + 1, read_id, alloc_ok, st)
  ELSE LET body == Deref(reads[i].body)
       IN  IF ~IsNull(read_id) /\ (IsNull(body.read_id) \/ Deref(body.read_id) # Deref(read_id))
           THEN SingleSignalLoop(reads, i + 1, read_id, alloc_ok, st)
           ELSE LET st2 == SingleCopySignal(body, alloc_ok, st)
                IN  IF ~IsNull(st2.signal) THEN st2
                    ELSE SingleSignalLoop(reads, i + 1, read_id, alloc_ok, st2)

read_single_read_signal(c, read_id, alloc_ok) ==
  IF IsNull(c.reads) THEN SignalResult(Null, 0)
  ELSE SingleSignalLoop(Deref(c.reads), 1, read_id, alloc_ok, SignalResult(Null, 0))

\* "Open Signal dataset ... H5Dclose" of read_multi_read_signal
MultiCopySignal(body, alloc_ok, st) ==
  IF IsNull(body.signal) THEN st
  ELSE LET ds == Deref(body.signal)
       IN  IF Len(ds.data) > 0
           THEN IF ~alloc_ok THEN SignalResult(Null, Len(ds.data))
                ELSE IF ds.readable THEN SignalResult(Ptr(ds.data), Len(ds.data))
                ELSE SignalResult(Null, 0)
           ELSE st

\* the loop over the root children of read_multi_read_signal, from child i
RECURSIVE MultiSignalLoop(_, _, _, _, _)
MultiSignalLoop(root, i, read_id, alloc_ok, st) ==
  IF i > Len(root) THEN st
  ELSE IF ~HasPrefix(root[i].name, STR_read_) THEN MultiSignalLoop(root, i + 1, read_id, alloc_ok, st)
  ELSE IF IsNull(root[i].body) THEN MultiSignalLoop(root, i + 1, read_id, alloc_ok, st)
  ELSE LET body == Deref(root[i].body)
       IN  IF ~IsNull(read_id) /\ (IsNull(body.read_id) \/ Deref(body.read_id) # Deref(read_id))
           THEN MultiSignalLoop(root, i + 1, read_id, alloc_ok, st)
           ELSE LET st2 == MultiCopySignal(body, alloc_ok, st)
                IN  IF ~IsNull(st2.signal) THEN st2
                    ELSE MultiSignalLoop(root, i + 1, read_id, alloc_ok, st2)

read_multi_read_signal(c, read_id, alloc_ok) ==
  MultiSignalLoop(c.root, 1, read_id, alloc_ok, SignalResult(Null, 0))

\* the identifiers a caller asks for: unset, a written name, or a name no
\* read carries
RequestedIds == {Null} \cup {Ptr(n) : n \in ReadNames \cup {<<99>>}}

\* read_fast5_signal(filename, read_id, &signal_length)
read_fast5_signal ==
  /\ alive
  /\ \E read_id \in RequestedIds, alloc_ok \in BOOLEAN :
       /\ call' = [op |-> "read_signal", read_id |-> read_id, alloc_ok |-> alloc_ok]
       /\ IF IsNull(file)
          THEN /\ signal' = Null
               /\ signal_length' = 0
               /\ is_multi_read' = FALSE
          ELSE LET c == Deref(file)
                   multi == DetectMultiRead(c)
                   r == IF multi THEN read_multi_read_signal(c, read_id, alloc_ok)
                        ELSE read_single_read_signal(c, read_id, alloc_ok)
               IN  /\ is_multi_read' = multi
                   /\ signal' = r.signal
                   /\ signal_length' = r.signal_length
  /\ meta' = Null
  /\ meta_count' = 0
  /\ UNCHANGED <<file, written, alive, ret, channel_vars, calib_vars, aux_vars, late_vars>>

----------------------------------------------------------------------------
(* Containers of other producers: every combination of discriminator,      *)
(* layout and up to MaxReads reads, each read with or without a read_id,   *)
(* with a missing, empty, unreadable or intact Signal dataset.             *)

FixtureFileTypes == {Null, Ptr(STR_single_read), Ptr(STR_multi_read)}

FixtureSignals ==
  {Null, Ptr(Dataset(<<>>, TRUE)), Ptr(Dataset(<<7>>, TRUE)),
   Ptr(Dataset(<<7>>, FALSE)), Ptr(Dataset(<<8, 9>>, TRUE))}

FixtureBodies ==
  {Null} \cup
  {Ptr(ReadBody(id, IF IsNull(sg) THEN Null ELSE Ptr(Len(Deref(sg).data)), Ptr(0), sg)) :
     id \in {Null} \cup {Ptr(n) : n \in ReadNames}, sg \in FixtureSignals}

MultiFixtureRoot(bodies) ==
  [i \in 1..Len(bodies) |-> Child(STR_read_ \o <<96 + i>>, bodies[i])]

SingleFixtureReads(bodies) ==
  [i \in 1..Len(bodies) |-> Child(STR_Read_ \o FormatInt(i - 1), bodies[i])]

FixtureFiles ==
  {Container(ft, MultiFixtureRoot(bs), Null) :
     ft \in FixtureFileTypes, bs \in SeqsUpTo(FixtureBodies, MaxReads)}
  \cup
  {Container(ft, <<Child(STR_Raw, Null), Child(STR_UniqueGlobalKey, Null)>>,
             Ptr(SingleFixtureReads(bs))) :
     ft \in FixtureFileTypes, bs \in SeqsUpTo(FixtureBodies, MaxReads)}

----------------------------------------------------------------------------
(* Channel-number decoding (core/fast5_convert.c) *)

MaxAttrLen == 4

MaxNameLen == 5

IsDigit(ch) == ch >= 48 /\ ch <= 57

\* isspace()
IsSpace(ch) == ch = 32 \/ (ch >= 9 /\ ch <= 13)

RECURSIVE DigitRun(_)
DigitRun(s) ==
  IF s = <<>> THEN <<>>
  ELSE IF IsDigit(Head(s)) THEN <<Head(s)>> \o DigitRun(Tail(s))
  ELSE <<>>

RECURSIVE DigitsValue(_)
DigitsValue(ds) ==
  IF ds = <<>> THEN 0
  ELSE DigitsValue(SubSeq(ds, 1, Len(ds) - 1)) * 10 + (ds[Len(ds)] - 48)

RECURSIVE SkipSpace(_)
SkipSpace(s) ==
  IF s # <<>> /\ IsSpace(Head(s)) THEN SkipSpace(Tail(s)) ELSE s

\* the %d conversion of sscanf: white space, an optional sign, digits
ScanInt(s) ==
  LET t == SkipSpace(s)
      signed == t # <<>> /\ Head(t) \in {43, 45}
      ds == DigitRun(IF signed THEN Tail(t) ELSE t)
  IN  [matched |-> ds # <<>>,
       value   |-> IF signed /\ Head(t) = 45 THEN 0 - DigitsValue(ds) ELSE DigitsValue(ds)]

\* strstr(s, needle): the first position of needle in s, 0 when there is none
StrStr(s, needle) ==
  LET hits == {i \in 1..(Len(s) - Len(needle) + 1) : SubSeq(s, i, i + Len(needle) - 1) = needle}
  IN  IF hits = {} THEN 0 ELSE CHOOSE i \in hits : \A j \in hits : i <= j

\* strrchr(filename, '/') ? ... + 1 : filename
Basename(path) ==
  LET slashes == {i \in 1..Len(path) : path[i] = 47}
  IN  IF slashes = {} THEN path
      ELSE SubSeq(path, (CHOOSE i \in slashes : \A j \in slashes : j <= i) + 1, Len(path))

STR_ch == <<99, 104>>

try_filename_channel_extraction(fname, chan) ==
  IF ~IsNull(chan) THEN chan
  ELSE LET basename == Basename(fname)
           ch_pos == StrStr(basename, STR_ch)
       IN  IF ch_pos = 0 THEN chan
           ELSE LET r == ScanInt(SubSeq(basename, ch_pos + 2, Len(basename)))
                IN  IF r.matched /\ r.value > 0 /\ r.value < 10000
                    THEN Ptr(FormatInt(r.value))
                    ELSE chan

\* the bytes of a C string up to its terminator, at most size of them
RECURSIVE CStr(_, _)
CStr(bytes, size) ==
  IF size = 0 \/ bytes = <<>> \/ Head(bytes) = 0 THEN <<>>
  ELSE <<Head(bytes)>> \o CStr(Tail(bytes), size - 1)

\* "channel_num > 0 && channel_num < 1000" of the packed-integer branch
Plausible(n) == n > 0 /\ n < 1000

\* the str_size == 8 branch: the first 2 and 4 bytes read as little- and
\* big-endian integers (on a little-endian host)
PackedChannel(bytes) ==
  LET as_uint16_le == bytes[1] + 256 * bytes[2]
      as_uint16_be == 256 * bytes[1] + bytes[2]
      as_uint32_le == bytes[1] + 256 * bytes[2] + 65536 * bytes[3] + 16777216 * bytes[4]
      as_uint32_be == 16777216 * bytes[1] + 65536 * bytes[2] + 256 * bytes[3] + bytes[4]
  IN  IF Plausible(as_uint16_le) THEN as_uint16_le
      ELSE IF Plausible(as_uint16_be) THEN as_uint16_be
      ELSE IF Plausible(as_uint32_le) THEN as_uint32_le
      ELSE IF Plausible(as_uint32_be) THEN as_uint32_be
      ELSE 0

\* the is_text loop of the short-string branch
IsText(bytes, size) ==
  \A i \in 1..Len(CStr(bytes, size)) : ~(bytes[i] < 32 \/ bytes[i] > 126)

\* ChannelFromAttr without its H5T_INTEGER branch
ChannelFromAttr_NoInteger(attr) ==
  IF attr.class = "string"
  THEN IF attr.size = 8
       THEN IF attr.readable /\ PackedChannel(attr.bytes) > 0
            THEN Ptr(FormatInt(PackedChannel(attr.bytes)))
            ELSE Null
       ELSE IF attr.size > 0 /\ attr.size < 32
       THEN IF attr.readable /\ IsText(attr.bytes, attr.size)
            THEN Ptr(CStr(attr.bytes, attr.size))
            ELSE Null
       ELSE Null
  ELSE Null

\* the body of extract_channel_number once the channel_id group is open:
\* the value left in metadata->channel_number
ChannelFromAttr(attr) ==
  IF attr.class = "integer"
  THEN IF attr.readable THEN Ptr(FormatInt(attr.value)) ELSE Null
  ELSE IF attr.class = "string"
  THEN IF attr.size = 8
       THEN IF attr.readable /\ PackedChannel(attr.bytes) > 0
            THEN Ptr(FormatInt(PackedChannel(attr.bytes)))
            ELSE Null
       ELSE IF attr.size > 0 /\ attr.size < 32
       THEN IF attr.readable /\ IsText(attr.bytes, attr.size)
            THEN Ptr(CStr(attr.bytes, attr.size))
            ELSE Null
       ELSE Null
  ELSE Null

\* extract_channel_number(file_id, signal_dataset_id, metadata)
extract_channel_number ==
  /\ enh_pc = "start"
  /\ channel_number' = ChannelFromAttr(channel_attr)
  /\ enh_pc' = "decoded"
  /\ UNCHANGED <<channel_attr, filename, codec_vars, calib_vars, aux_vars, late_vars>>

\* extract_raw_signals: "Try filename extraction as fallback for any
\* missing channel numbers"
extract_raw_signals_fallback ==
  /\ enh_pc = "decoded"
  /\ channel_number' = IF IsNull(channel_number)
                       THEN try_filename_channel_extraction(filename, channel_number)
                       ELSE channel_number
  /\ enh_pc' = "done"
  /\ UNCHANGED <<channel_attr, filename, codec_vars, calib_vars, aux_vars, late_vars>>

\* the stored forms of channel_number: none, an integer, a float, and
\* fixed-length strings of every content up to MaxAttrLen bytes, stored
\* NUL-terminated, in 8 bytes and in 32 bytes
ChannelBytes == {0, 1, 15, 49, 50}

Pad(content, size) == [i \in 1..size |-> IF i <= Len(content) THEN content[i] ELSE 0]

StringAttr(content, size, readable) ==
  [class |-> "string", value |-> 0, size |-> size, bytes |-> Pad(content, size),
   readable |-> readable]

IntegerAttr(value, readable) ==
  [class |-> "integer", value |-> value, size |-> 4, bytes |-> <<>>, readable |-> readable]

FloatAttr == [class |-> "float", value |-> 0, size |-> 8, bytes |-> <<>>, readable |-> TRUE]

ChannelAttrs ==
  {NoChannelAttr, FloatAttr}
  \cup {IntegerAttr(v, rd) : v \in {1, 271, 0 - 4}, rd \in BOOLEAN}
  \cup UNION {{StringAttr(content, sz, rd) : sz \in {Len(content) + 1, 8, 32}, rd \in BOOLEAN} :
                content \in SeqsUpTo(ChannelBytes, MaxAttrLen)}

\* the characters of a path: c h 9 0 / _
NameChars == {99, 104, 57, 48, 47, 95}

STR_ch999 == <<99, 104, 57, 57, 57>>

Init_channel ==
  /\ \/ /\ channel_attr \in ChannelAttrs
        /\ filename \in {STR_ch999, <<104>>}
     \/ /\ channel_attr = NoChannelAttr
        /\ filename \in SeqsUpTo(NameChars, MaxNameLen)
  /\ channel_number = Null
  /\ enh_pc = "start"
  /\ file = Null
  /\ CodecIdle
  /\ CalibIdle
  /\ AuxIdle
  /\ LateIdle

Next_channel ==
  \/ extract_channel_number
  \/ extract_raw_signals_fallback

SpecChannel == Init_channel /\ [][Next_channel]_vars

(* Claims about channel decoding *)

\* the attribute is a fixed-length text of fewer than 32 bytes whose
\* content is a decimal integer string, NUL-padded
IsDecimalText(attr) ==
  /\ attr.class = "string"
  /\ attr.readable
  /\ attr.size < 32
  /\ LET content == CStr(attr.bytes, attr.size)
     IN  /\ content # <<>>
         /\ \A i \in 1..Len(content) : IsDigit(content[i])
         /\ \A i \in (Len(content) + 1)..attr.size : attr.bytes[i] = 0

\* a channel string that reads as the integer n
ReadsAs(chan, n) ==
  /\ ~IsNull(chan)
  /\ Deref(chan) # <<>>
  /\ \A i \in 1..Len(Deref(chan)) : IsDigit(Deref(chan)[i])
  /\ DigitsValue(Deref(chan)) = n

\* C5: a fixed-length text channel_number whose content is a printable
\* decimal integer string decodes to that integer for every attribute
\* length, a length of 8 bytes included (stated here for the lengths below
\* the decoder's 32-byte buffer).
C5_DecimalTextDecodes ==
  (enh_pc = "decoded" /\ IsDecimalText(channel_attr))
    => ReadsAs(channel_number, DigitsValue(CStr(channel_attr.bytes, channel_attr.size)))

\* the positions of the file's name where "ch" is followed by a digit
ChDigitPositions(name) ==
  {p \in 1..(Len(name) - 2) : name[p] = 99 /\ name[p + 1] = 104 /\ IsDigit(name[p + 2])}

\* the number spelled by the digits that follow the "ch" at position p
ChValueAt(name, p) == DigitsValue(DigitRun(SubSeq(name, p + 2, Len(name))))

\* C6: when no attribute decoding yields a channel and the file's name has
\* a substring "ch" immediately followed by decimal digits, channel_number
\* is set to those digits (stated here for digits that spell a channel in
\* 1..9999); when the name has no such substring it stays absent.
C6_FilenameFallback ==
  (enh_pc = "done" /\ channel_attr = NoChannelAttr)
    => LET name == Basename(filename)
           hits == ChDigitPositions(name)
           channels == {p \in hits : ChValueAt(name, p) > 0 /\ ChValueAt(name, p) < 10000}
       IN  /\ channels # {} => \E p \in channels : ReadsAs(channel_number, ChValueAt(name, p))
           /\ hits = {} => IsNull(channel_number)

----------------------------------------------------------------------------
(* Calibration (core/fast5_io.c) and the summary row (core/fast5_stats.c). *)
(* The coefficients are integers here; a picoampere value is a fraction.   *)

MaxSamples == 2

\* a numeric attribute as stored: its value and whether H5Aread succeeds
NumAttr(value, readable) == [value |-> value, readable |-> readable]

CalGroup(off, rng, dig) == [offset |-> off, range |-> rng, digitisation |-> dig]

\* H5Aopen >= 0 and H5Aread >= 0
Got(attr) == ~IsNull(attr) /\ Deref(attr).readable

\* the field after "H5Aread(attr, H5T_NATIVE_DOUBLE, &metadata->field)":
\* the stored value when the read succeeds, the initial 0.0 otherwise
FieldAfterRead(attr) == IF Got(attr) THEN Deref(attr).value ELSE 0

\* extract_calibration_parameters(file_id, signal_dataset_id, metadata)
extract_calibration_parameters ==
  /\ cal_pc = "start"
  /\ IF IsNull(cal_group)
     THEN /\ offset' = 0
          /\ range' = 0
          /\ digitisation' = 0
          /\ calibration_available' = FALSE
     ELSE LET g == Deref(cal_group)
          IN  /\ offset' = FieldAfterRead(g.offset)
              /\ range' = FieldAfterRead(g.range)
              /\ digitisation' = FieldAfterRead(g.digitisation)
              /\ calibration_available' = (Got(g.offset) /\ Got(g.range) /\ Got(g.digitisation))
  /\ cal_pc' = "enhanced"
  /\ UNCHANGED <<cal_group, raw_signal, median_pa, mad_pa, codec_vars, channel_vars, aux_vars, late_vars>>

\* qsort with compare_int16
RECURSIVE InsertSorted(_, _)
InsertSorted(sorted, x) ==
  IF sorted = <<>> THEN <<x>>
  ELSE IF x <= Head(sorted) THEN <<x>> \o sorted
  ELSE <<Head(sorted)>> \o InsertSorted(Tail(sorted), x)

RECURSIVE Sort(_)
Sort(data) == IF data = <<>> THEN <<>> ELSE InsertSorted(Sort(Tail(data)), Head(data))

\* calculate_median_int16, as twice the median
Median2(data) ==
  LET length == Len(data)
      sorted == Sort(data)
  IN  IF length = 0 THEN 0
      ELSE IF length % 2 = 0 THEN sorted[length \div 2] + sorted[length \div 2 + 1]
      ELSE 2 * sorted[length \div 2 + 1]

Abs(x) == IF x < 0 THEN 0 - x ELSE x

\* calculate_mad_int16, as twice the MAD: abs_dev[i] = (int16_t)fabs(data[i] - median)
Mad2(data, median2) ==
  Median2([i \in 1..Len(data) |-> Abs(2 * data[i] - median2) \div 2])

\* "Convert to pA if calibration available" of write_summary_row
SummaryMedianPA(median2, avail, off, rng, dig) ==
  IF avail /\ dig > 0 THEN Fraction((median2 - 2 * off) * rng, 2 * dig)
  ELSE Fraction(median2, 2)

SummaryMadPA(mad2, avail, rng, dig) ==
  IF avail /\ dig > 0 THEN Fraction(mad2 * rng, 2 * dig)
  ELSE Fraction(mad2, 2)

\* the conversion the header of write_signal_to_file prints:
\* "signal_pA = (raw_signal + offset) * range / digitisation"
AdvertisedConversion(raw2, off, rng, dig) == Fraction((raw2 + 2 * off) * rng, 2 * dig)

\* write_summary_row(fp, filename, metadata, signal, signal_length)
write_summary_row ==
  /\ cal_pc = "enhanced"
  /\ LET median_raw2 == Median2(raw_signal)
         mad_raw2 == Mad2(raw_signal, median_raw2)
     IN  /\ median_pa' = SummaryMedianPA(median_raw2, calibration_available, offset, range, digitisation)
         /\ mad_pa' = SummaryMadPA(mad_raw2, calibration_available, range, digitisation)
  /\ cal_pc' = "row"
  /\ UNCHANGED <<cal_group, raw_signal, offset, range, digitisation,
                 calibration_available, codec_vars, channel_vars, aux_vars, late_vars>>

\* the stored forms of the channel_id group: missing, or with each of the
\* three coefficients absent, unreadable or present
OffsetAttrs == {Null, Ptr(NumAttr(10, FALSE)), Ptr(NumAttr(0, TRUE)), Ptr(NumAttr(10, TRUE))}

RangeAttrs == {Null, Ptr(NumAttr(5, FALSE)), Ptr(NumAttr(5, TRUE))}

DigitisationAttrs == {Null, Ptr(NumAttr(2, FALSE)), Ptr(NumAttr(0, TRUE)), Ptr(NumAttr(2, TRUE))}

CalGroups ==
  {Null} \cup {Ptr(CalGroup(o, r, d)) : o \in OffsetAttrs, r \in RangeAttrs, d \in DigitisationAttrs}

RawSamples == {1, 4, 0 - 6}

Init_calib ==
  /\ cal_group \in CalGroups
  /\ raw_signal \in SeqsUpTo(RawSamples, MaxSamples) \ {<<>>}
  /\ offset = 0
  /\ range = 0
  /\ digitisation = 0
  /\ calibration_available = FALSE
  /\ median_pa = Fraction(0, 1)
  /\ mad_pa = Fraction(0, 1)
  /\ cal_pc = "start"
  /\ file = Null
  /\ CodecIdle
  /\ ChannelIdle
  /\ AuxIdle
  /\ LateIdle

Next_calib ==
  \/ extract_calibration_parameters
  \/ write_summary_row

SpecCalib == Init_calib /\ [][Next_calib]_vars

(* Claims about calibration *)

SameFraction(a, b) == a.num * b.den = b.num * a.den

\* C4: after extract_calibration_parameters, calibration_available holds
\* exactly when offset, range and digitisation were all read, and when it
\* does not hold all three fields are zero, never a partial triple.
C4_CalibrationAllOrNothing ==
  cal_pc = "enhanced"
    => /\ calibration_available
            <=> (/\ ~IsNull(cal_group)
                 /\ Got(Deref(cal_group).offset)
                 /\ Got(Deref(cal_group).range)
                 /\ Got(Deref(cal_group).digitisation))
       /\ ~calibration_available => (offset = 0 /\ range = 0 /\ digitisation = 0)

\* C8: the median_pA of the summary row is the conversion the per-sample
\* dump advertises, (raw_sample + offset) * range / digitisation.
C8_SummaryUsesAdvertisedConversion ==
  (cal_pc = "row" /\ calibration_available /\ digitisation > 0)
    => SameFraction(median_pa,
                    AdvertisedConversion(Median2(raw_signal), offset, range, digitisation))

----------------------------------------------------------------------------
(* The codec on its own containers: the path holds nothing, the writers    *)
(* create the container, the readers read it back.                         *)

Init ==
  /\ file = Null
  /\ CodecIdle
  /\ ChannelIdle
  /\ CalibIdle
  /\ AuxIdle
  /\ LateIdle

Next ==
  \/ seq_write_fast5_single
  \/ seq_write_fast5_multi
  \/ read_fast5_metadata_with_enhancer
  \/ read_fast5_signal

Spec == Init /\ [][Next]_vars

(* The readers on the containers of other producers. *)

InitRead ==
  /\ file \in {Ptr(c) : c \in FixtureFiles}
  /\ CodecIdle
  /\ ChannelIdle
  /\ CalibIdle
  /\ AuxIdle
  /\ LateIdle

NextRead ==
  \/ read_fast5_metadata_with_enhancer
  \/ read_fast5_signal

SpecRead == InitRead /\ [][NextRead]_vars

----------------------------------------------------------------------------
(* Claims about the codec *)

FileTypeOf(f) == Deref(Deref(f).file_type)

AllNonNull(bufs) == \A i \in 1..Len(bufs) : ~IsNull(bufs[i])

Distinct(names) == \A i, j \in 1..Len(names) : i # j => names[i] # names[j]

\* the bodies of the reads of a container in the order the readers
\* enumerate them
EnumeratedBodies(c, multi) ==
  LET kids == IF multi THEN SelectSeq(c.root, LAMBDA k : HasPrefix(k.name, STR_read_))
              ELSE IF IsNull(c.reads) THEN <<>> ELSE Deref(c.reads)
      open == SelectSeq(kids, LAMBDA k : ~IsNull(k.body))
  IN  [i \in 1..Len(open) |-> Deref(open[i].body)]

\* the metadata array holds one record per written read, in some order,
\* with the written name and the sample count as duration and signal_length
RecordsMatchWritten(multi) ==
  /\ ~IsNull(meta)
  /\ meta_count = Len(written.names)
  /\ Len(Deref(meta)) = meta_count
  /\ \E p \in Permutations(1..meta_count) :
       \A i \in 1..meta_count :
         LET rec == Deref(meta)[p[i]]
         IN  /\ rec.read_id = Ptr(written.names[i])
             /\ rec.duration = Len(Deref(written.bufs[i]))
             /\ rec.signal_length = Len(Deref(written.bufs[i]))
             /\ rec.is_multi_read = multi

\* the buffer returned is one that was written under the requested name
SignalMatchesWritten ==
  /\ ~IsNull(signal)
  /\ \E i \in 1..Len(written.names) :
       /\ Ptr(written.names[i]) = call.read_id
       /\ signal = written.bufs[i]
       /\ signal_length = Len(Deref(written.bufs[i]))

RequestedWasWritten ==
  \E i \in 1..Len(written.names) : Ptr(written.names[i]) = call.read_id

\* C1: whenever the root attribute file_type is present, the two readers
\* classify the file as the dialect the attribute declares: multi-read when
\* it says multi-read, single-read when it says single-read.
C1_DetectionFollowsDiscriminator ==
  (call.op # "none" /\ ~IsNull(file) /\ ~IsNull(Deref(file).file_type))
    => (is_multi_read <=> FileTypeOf(file) = STR_multi_read)

\* C2: after seq_write_fast5_single of N >= 1 non-null buffers, the metadata
\* reader returns one record per written read (read_id the written name,
\* duration and signal_length the sample count) and the signal reader called
\* with a written name returns the samples written under it.
C2_RoundTripSingle ==
  (written.mode = "single" /\ alive /\ AllNonNull(written.bufs))
    => /\ call.op = "read_metadata" => RecordsMatchWritten(FALSE)
       /\ (call.op = "read_signal" /\ call.alloc_ok /\ RequestedWasWritten)
            => SignalMatchesWritten

\* C3: after seq_write_fast5_multi of N >= 1 non-null buffers under pairwise
\* distinct names, the metadata reader returns N records flagged multi-read
\* whose read_ids are the written names and whose duration and signal_length
\* are the sample counts, and the signal reader called with a written name
\* returns exactly the samples written under that name.
C3_RoundTripMulti ==
  (written.mode = "multi" /\ alive /\ AllNonNull(written.bufs) /\ Distinct(written.names))
    => /\ call.op = "read_metadata" => RecordsMatchWritten(TRUE)
       /\ (call.op = "read_signal" /\ call.alloc_ok /\ RequestedWasWritten)
            => SignalMatchesWritten

\* a multi-read container of two reads has been written and the read that
\* is enumerated second has been read back by name
C3_Witness ==
  /\ written.mode = "multi"
  /\ alive
  /\ Len(written.names) = 2
  /\ AllNonNull(written.bufs)
  /\ Distinct(written.names)
  /\ written.bufs[1] # written.bufs[2]
  /\ call.op = "read_signal"
  /\ call.alloc_ok
  /\ LexLess(written.names[2], written.names[1])
  /\ call.read_id = Ptr(written.names[1])
  /\ signal = written.bufs[1]

\* C9: called with the read identifier unset, read_fast5_signal returns the
\* samples of the first read in enumeration order (the read of record 0 of
\* the metadata reader), not those of a later read.
C9_UnsetIdReturnsFirstRead ==
  (call.op = "read_signal" /\ IsNull(call.read_id) /\ ~IsNull(file) /\ ~IsNull(signal))
    => LET bodies == EnumeratedBodies(Deref(file), is_multi_read)
       IN  /\ Len(bodies) > 0
           /\ ~IsNull(bodies[1].signal)
           /\ signal = Ptr(Deref(bodies[1].signal).data)

\* C10: read_fast5_signal returns no buffer and a length of 0 when no read
\* matches or the copy fails; a null buffer never comes with a non-zero
\* length, nor a buffer with length 0.
C10_NullBufferIffZeroLength ==
  call.op = "read_signal" => (IsNull(signal) <=> signal_length = 0)

----------------------------------------------------------------------------
(* The Container Writer when one HDF5 creation call fails.                 *)
(* A fault names the call (site) and, for the calls made once per read,    *)
(* the 1-based position of the read; the calls made once per file carry    *)
(* read 0.  The variable fault keeps the call that actually failed during  *)
(* the last write (NoFault when the writer never reached it).              *)

\* creation calls whose result the writers test: errx(EXIT_FAILURE, ...).
\* H5Dcreate2 of Signal is not tested itself, the H5Dwrite on its invalid
\* handle is
CheckedSites ==
  {"H5Fcreate", "Raw", "Raw/Reads", "UniqueGlobalKey", "read_group",
   "read_raw_group", "Signal"}

\* H5Acreate2 of the attributes of a read: results never tested
AttrSites == {"duration", "read_id", "read_number"}

\* H5Gcreate2 of channel_id: result never tested
UncheckedGroupSites == {"channel_id"}

Fault(site, read) == [site |-> site, read |-> read]

SingleFaults ==
  {NoFault}
    \cup {Fault(s, 0) : s \in {"H5Fcreate", "Raw", "Raw/Reads", "UniqueGlobalKey", "channel_id"}}
    \cup {Fault(s, k) : s \in {"read_group", "Signal"} \cup AttrSites, k \in 1..MaxReads}

MultiFaults ==
  {NoFault}
    \cup {Fault("H5Fcreate", 0)}
    \cup {Fault(s, k) : s \in {"read_group", "read_raw_group", "Signal", "channel_id"} \cup AttrSites,
                        k \in 1..MaxReads}

\* the attributes and dataset of read i (1-based) when f is the failing
\* call: H5Awrite on the invalid handle of a failed H5Acreate2 writes nothing
FaultedBody(f, i, name, buf) ==
  ReadBody(IF f = Fault("read_id", i) THEN Null ELSE Ptr(name),
           IF f = Fault("duration", i) THEN Null ELSE Ptr(U32(Len(buf))),
           IF f = Fault("read_number", i) THEN Null ELSE Ptr(i - 1),
           Ptr(Dataset(buf, TRUE)))

\* a read group that exists but holds neither dataset nor attributes
EmptyBody == ReadBody(Null, Null, Null, Null)

WriteOutcome(children, exited, failed) ==
  [children |-> children, exited |-> exited, fault |-> failed]

\* the loop over read_idx of seq_write_fast5_single under fault f
RECURSIVE WriteSingleReadsFaulted(_, _, _, _, _)
WriteSingleReadsFaulted(reads, names, bufs, i, f) ==
  IF i > Len(names) THEN WriteOutcome(reads, FALSE, NoFault)
  ELSE IF IsNull(bufs[i]) THEN WriteSingleReadsFaulted(reads, names, bufs, i + 1, f)
  ELSE IF f = Fault("read_group", i) THEN WriteOutcome(reads, TRUE, f)
  ELSE IF f = Fault("Signal", i)
  THEN WriteOutcome(InsertChild(reads, Child(STR_Read_ \o FormatInt(i - 1), Ptr(EmptyBody))),
                    TRUE, f)
  ELSE LET group == Child(STR_Read_ \o FormatInt(i - 1),
                          Ptr(FaultedBody(f, i, names[i], Deref(bufs[i]))))
           rest  == WriteSingleReadsFaulted(InsertChild(reads, group), names, bufs, i + 1, f)
       IN  IF f.read = i /\ f.site \in AttrSites
           THEN WriteOutcome(rest.children, rest.exited, f)
           ELSE rest

\* the loop over read_idx of seq_write_fast5_multi under fault f; a name
\* that already exists makes H5Gcreate2 of the read group fail by itself
RECURSIVE WriteMultiReadsFaulted(_, _, _, _, _)
WriteMultiReadsFaulted(root, names, bufs, i, f) ==
  IF i > Len(names) THEN WriteOutcome(root, FALSE, NoFault)
  ELSE IF IsNull(bufs[i]) THEN WriteMultiReadsFaulted(root, names, bufs, i + 1, f)
  ELSE IF f = Fault("read_group", i) \/ HasChild(root, STR_read_ \o names[i])
  THEN WriteOutcome(root, TRUE, Fault("read_group", i))
  ELSE IF f = Fault("read_raw_group", i)
  THEN WriteOutcome(InsertChild(root, Child(STR_read_ \o names[i], Null)), TRUE, f)
  ELSE IF f = Fault("Signal", i)
  THEN WriteOutcome(InsertChild(root, Child(STR_read_ \o names[i], Ptr(EmptyBody))), TRUE, f)
  ELSE LET group == Child(STR_read_ \o names[i],
                          Ptr(FaultedBody(f, i, names[i], Deref(bufs[i]))))
           rest  == WriteMultiReadsFaulted(InsertChild(root, group), names, bufs, i + 1, f)
       IN  IF f.read = i /\ f.site \in AttrSites \cup UncheckedGroupSites /\ ~rest.exited
           THEN WriteOutcome(rest.children, FALSE, f)
           ELSE rest

\* what seq_write_fast5_single leaves behind under fault f: the file, whether
\* errx() ended the process, and the call that failed
SingleWriteOutcome(names, bufs, f) ==
  IF f.site = "H5Fcreate" THEN [file |-> file, exited |-> TRUE, fault |-> f]
  ELSE IF f.site = "Raw"
  THEN [file |-> Ptr(Container(Ptr(STR_single_read), <<>>, Null)),
        exited |-> TRUE, fault |-> f]
  ELSE IF f.site = "Raw/Reads"
  THEN [file |-> Ptr(Container(Ptr(STR_single_read), <<Child(STR_Raw, Null)>>, Null)),
        exited |-> TRUE, fault |-> f]
  ELSE IF f.site = "UniqueGlobalKey"
  THEN [file |-> Ptr(Container(Ptr(STR_single_read), <<Child(STR_Raw, Null)>>, Ptr(<<>>))),
        exited |-> TRUE, fault |-> f]
  ELSE LET w == WriteSingleReadsFaulted(<<>>, names, bufs, 1, f)
       IN  [file |-> Ptr(Container(Ptr(STR_single_read),
                                   InsertChild(InsertChild(<<>>, Child(STR_Raw, Null)),
                                               Child(STR_UniqueGlobalKey, Null)),
                                   Ptr(w.children))),
            exited |-> w.exited,
            fault |-> IF f.site = "channel_id" THEN f ELSE w.fault]

MultiWriteOutcome(names, bufs, f) ==
  IF f.site = "H5Fcreate" THEN [file |-> file, exited |-> TRUE, fault |-> f]
  ELSE LET w == WriteMultiReadsFaulted(<<>>, names, bufs, 1, f)
       IN  [file |-> Ptr(MultiContainer(w.children)), exited |-> w.exited,
            fault |-> w.fault]

\* seq_write_fast5_single with the HDF5 library failing one creation call
seq_write_fast5_single_faulted ==
  /\ alive
  /\ \E a \in WriterArgs, f \in SingleFaults :
       /\ Len(a.names) = Len(a.bufs)
       /\ IF Len(a.names) <= 0
          THEN /\ ret' = -1
               /\ fault' = NoFault
               /\ UNCHANGED <<file, written, alive>>
          ELSE LET o == SingleWriteOutcome(a.names, a.bufs, f)
               IN  /\ file' = o.file
                   /\ written' = [mode |-> "single", names |-> a.names, bufs |-> a.bufs]
                   /\ alive' = ~o.exited
                   /\ ret' = IF o.exited THEN ret ELSE 0
                   /\ fault' = o.fault
  /\ ResetReaders
  /\ UNCHANGED <<channel_vars, calib_vars, stats_vars, batch_vars, disc_vars, probe_vars, kmer_vars, late_vars>>

\* seq_write_fast5_multi with the HDF5 library failing one creation call
seq_write_fast5_multi_faulted ==
  /\ alive
  /\ \E a \in WriterArgs, f \in MultiFaults :
       /\ Len(a.names) = Len(a.bufs)
       /\ IF Len(a.names) <= 0
          THEN /\ ret' = -1
               /\ fault' = NoFault
               /\ UNCHANGED <<file, written, alive>>
          ELSE LET o == MultiWriteOutcome(a.names, a.bufs, f)
               IN  /\ file' = o.file
                   /\ written' = [mode |-> "multi", names |-> a.names, bufs |-> a.bufs]
                   /\ alive' = ~o.exited
                   /\ ret' = IF o.exited THEN ret ELSE 0
                   /\ fault' = o.fault
  /\ ResetReaders
  /\ UNCHANGED <<channel_vars, calib_vars, stats_vars, batch_vars, disc_vars, probe_vars, kmer_vars, late_vars>>

Init_write ==
  /\ file = Null
  /\ CodecIdle
  /\ ChannelIdle
  /\ CalibIdle
  /\ AuxIdle
  /\ LateIdle

Next_write ==
  \/ seq_write_fast5_single_faulted
  \/ seq_write_fast5_multi_faulted

SpecWrite == Init_write /\ [][Next_write]_vars

\* the last write returned 0 to its caller
ReportsSuccess == alive /\ written.mode # "none" /\ ret = 0

\* C11: when the creation of an attribute of a read fails while a writer
\* builds a container, the construction is aborted and the call does not
\* report success: it never returns 0 for a container lacking the attribute.
C11_AttributeFailureAborts ==
  fault.site \in AttrSites => ~ReportsSuccess

\* C12: a file-, group- or dataset-creation failure makes that one write
\* return -1 to its caller without ending the process, so that later writes
\* still run, and the partial file is not reported as a success.
C12_CreationFailureReturnsError ==
  fault.site \in CheckedSites \cup UncheckedGroupSites => (alive /\ ret = -1)

----------------------------------------------------------------------------
(* Dataset statistics (core/fast5_stats.c).                                *)
(* results[i] is what the metadata reader returned for file i: the array   *)
(* (Null when the file could not be read), its count and the size of the   *)
(* file.  A uint32_t is kept as its two 16-bit halves <<high, low>>, so    *)
(* that UINT32_MAX is a value of the model; sums are uint64_t and doubles  *)
(* and stay far below their limits.  No enhancer is passed (NULL).         *)

MaxFiles == 2

MaxFileReads == 2

U32Val(n) == <<n \div 65536, n % 65536>>

UINT32_MAX == <<65535, 65535>>

U32Less(a, b) == a[1] < b[1] \/ (a[1] = b[1] /\ a[2] < b[2])

\* a/b + c/d, unreduced
FracAdd(x, y) == Fraction(x.num * y.den + y.num * x.den, x.den * y.den)

\* the fields of a fast5_metadata_t the statistics read
StatRecords ==
  {[signal_length |-> 0, duration |-> 0, sample_rate |-> 2],
   [signal_length |-> 1, duration |-> 1, sample_rate |-> 0],
   [signal_length |-> 3, duration |-> 3, sample_rate |-> 2]}

FileSizesMb == {2}

\* one entry of results[] / results_count[] / filenames[]: a file that could
\* not be read (NULL, 0), one whose array is empty, or one with reads
FileResults ==
  {[metadata |-> Null, count |-> 0, size_mb |-> sz] : sz \in FileSizesMb}
    \cup {[metadata |-> Ptr(recs), count |-> Len(recs), size_mb |-> sz] :
            recs \in SeqsUpTo(StatRecords, MaxFileReads), sz \in FileSizesMb}

Batches == SeqsUpTo(FileResults, MaxFiles)

\* calc_signal_stats: the initial values of the counters
StatsZero ==
  [successful_files |-> 0, total_reads |-> 0, total_file_size_mb |-> 0,
   total_samples |-> 0, min_signal_length |-> UINT32_MAX,
   max_signal_length |-> U32Val(0), total_duration_seconds |-> Fraction(0, 1)]

\* calc_signal_stats: the body of the loop over the reads of a file
FoldRead(st, rec) ==
  LET len == U32Val(rec.signal_length)
  IN  [st EXCEPT
         !.total_samples = @ + rec.signal_length,
         !.min_signal_length =
            IF rec.signal_length > 0 /\ U32Less(len, @) THEN len ELSE @,
         !.max_signal_length =
            IF rec.signal_length > 0 /\ U32Less(@, len) THEN len ELSE @,
         !.total_duration_seconds =
            IF rec.sample_rate > 0
            THEN FracAdd(@, Fraction(rec.duration, rec.sample_rate)) ELSE @]

RECURSIVE FoldReads(_, _, _, _)
FoldReads(st, recs, j, count) ==
  IF j > count THEN st ELSE FoldReads(FoldRead(st, recs[j]), recs, j + 1, count)

\* FoldFile that takes every file for a successful one
FoldFile_NoFailureTest(st, f) ==
  LET counted == [st EXCEPT !.successful_files = @ + 1,
                            !.total_reads = @ + f.count,
                            !.total_file_size_mb = @ + f.size_mb]
  IN  IF IsNull(f.metadata) THEN counted
      ELSE FoldReads(counted, Deref(f.metadata), 1, f.count)

\* calc_signal_stats: the body of the loop over the files
FoldFile(st, f) ==
  IF ~IsNull(f.metadata) /\ f.count > 0
  THEN FoldReads([st EXCEPT !.successful_files = @ + 1,
                            !.total_reads = @ + f.count,
                            !.total_file_size_mb = @ + f.size_mb],
                 Deref(f.metadata), 1, f.count)
  ELSE st

RECURSIVE calc_signal_stats(_, _, _)
calc_signal_stats(st, res, i) ==
  IF i > Len(res) THEN st ELSE calc_signal_stats(FoldFile(st, res[i]), res, i + 1)

\* calc_fast5_dataset_stats_with_enhancer(results, results_count, filenames,
\* file_count, NULL)
calc_fast5_dataset_stats_with_enhancer ==
  /\ stats_pc = "results"
  /\ LET st == calc_signal_stats(StatsZero, results, 1)
     IN  stats' = Ptr(IF st.total_reads = 0
                      THEN [st EXCEPT !.min_signal_length = U32Val(0)]
                      ELSE st)
  /\ stats_pc' = "stats"
  /\ UNCHANGED <<results, summary, codec_vars, channel_vars, calib_vars, fault_vars, batch_vars, disc_vars, probe_vars, kmer_vars, late_vars>>

\* calc_analysis_summary_with_enhancer(stats, file_count, ms, NULL)
calc_analysis_summary_with_enhancer ==
  /\ stats_pc = "stats"
  /\ LET st == Deref(stats)
         file_count == Len(results)
     IN  summary' =
           Ptr([total_files |-> file_count,
                total_file_size_mb |-> st.total_file_size_mb,
                successful_files |-> st.successful_files,
                failed_files |-> file_count - st.successful_files,
                total_reads |-> st.total_reads,
                total_samples |-> st.total_samples,
                avg_signal_length |->
                  IF st.total_reads > 0 THEN Fraction(st.total_samples, st.total_reads)
                  ELSE Fraction(0, 1),
                min_signal_length |-> st.min_signal_length,
                max_signal_length |-> st.max_signal_length,
                total_duration_seconds |-> st.total_duration_seconds])
  /\ stats_pc' = "summary"
  /\ UNCHANGED <<results, stats, codec_vars, channel_vars, calib_vars, fault_vars, batch_vars, disc_vars, probe_vars, kmer_vars, late_vars>>

Init_stats ==
  /\ results \in Batches
  /\ stats = Null
  /\ summary = Null
  /\ stats_pc = "results"
  /\ file = Null
  /\ CodecIdle
  /\ ChannelIdle
  /\ CalibIdle
  /\ FaultIdle
  /\ BatchIdle
  /\ DiscIdle
  /\ ProbeIdle
  /\ KmerIdle
  /\ LateIdle

Next_stats ==
  \/ calc_fast5_dataset_stats_with_enhancer
  \/ calc_analysis_summary_with_enhancer

SpecStats == Init_stats /\ [][Next_stats]_vars

\* the files of the batch whose metadata array is neither null nor empty
ReadableFiles ==
  {i \in 1..Len(results) : ~IsNull(results[i].metadata) /\ results[i].count > 0}

\* the reads of those files, as <<file, position>>
ReadableReads ==
  {ij \in (1..Len(results)) \X (1..MaxFileReads) :
     ij[1] \in ReadableFiles /\ ij[2] <= results[ij[1]].count}

LengthOf(ij) == Deref(results[ij[1]].metadata)[ij[2]].signal_length

RECURSIVE SumLengths(_)
SumLengths(S) ==
  IF S = {} THEN 0
  ELSE LET x == CHOOSE y \in S : TRUE IN LengthOf(x) + SumLengths(S \ {x})

NonZeroLengths == {LengthOf(ij) : ij \in {r \in ReadableReads : LengthOf(r) > 0}}

C14_MinNeverUnboundedHigh ==
  /\ stats_pc \in {"stats", "summary"} =>
       /\ Deref(stats).min_signal_length # UINT32_MAX
       /\ ~U32Less(Deref(stats).max_signal_length, Deref(stats).min_signal_length)
       /\ NonZeroLengths = {} => Deref(stats).min_signal_length = U32Val(0)
  /\ stats_pc = "summary" =>
       /\ Deref(summary).min_signal_length # UINT32_MAX
       /\ ~U32Less(Deref(summary).max_signal_length, Deref(summary).min_signal_length)

----------------------------------------------------------------------------
(* The batch loops: extract_metadata and extract_raw_signals of            *)
(* core/fast5_convert.c and process_files_sequentially of                  *)
(* sequelizer_fast5.c.  One action is one iteration of the loop.  A file   *)
(* is "unreadable" when read_fast5_metadata_with_enhancer returns no       *)
(* records for it, else "single" or "multi" after metadata[0].is_multi_read*)
(* The output stream of extract_metadata is open when its loop starts.     *)

FileKinds == {"unreadable", "single", "multi"}

BatchOps == {"extract_metadata", "extract_raw_signals", "process_files_sequentially"}

\* the "for (size_t i = 0; i < file_count; i++)" body of extract_metadata
extract_metadata ==
  /\ batch_op = "extract_metadata"
  /\ batch_i <= Len(files)
  /\ IF files[batch_i] = "unreadable"
     THEN /\ skipped' = skipped \cup {batch_i}
          /\ UNCHANGED processed
     ELSE /\ processed' = processed \cup {batch_i}
          /\ UNCHANGED skipped
  /\ batch_i' = batch_i + 1
  /\ UNCHANGED <<files, output_file, dir_exists, dir_failed, batch_op>>
  /\ UNCHANGED <<codec_vars, channel_vars, calib_vars, fault_vars, stats_vars, disc_vars, probe_vars, kmer_vars, late_vars>>

\* write_signal_to_file: fopen(output_filename, "w") succeeds when the
\* directory of the name exists; the name lies in output_file when that
\* is given, except for a lone single-read file (output_file is the name)
SignalFileWritable(kind, direxists) ==
  IF IsNull(output_file) THEN TRUE
  ELSE IF Len(files) = 1 /\ kind = "single" THEN TRUE
  ELSE direxists

\* the "for (size_t i = 0; i < file_count; i++)" body of extract_raw_signals
extract_raw_signals ==
  /\ batch_op = "extract_raw_signals"
  /\ batch_i <= Len(files)
  /\ LET kind == files[batch_i]
         needs_dir == /\ ~IsNull(output_file)
                      /\ batch_i = 1
                      /\ (Len(files) > 1 \/ (Len(files) = 1 /\ kind = "multi"))
     IN  IF kind = "unreadable"
         THEN /\ skipped' = skipped \cup {batch_i}
              /\ UNCHANGED <<processed, dir_exists, dir_failed>>
         ELSE \E mkdir_ok \in BOOLEAN :
                IF needs_dir /\ ~dir_exists /\ ~mkdir_ok
                THEN /\ dir_failed' = TRUE
                     /\ UNCHANGED <<skipped, processed, dir_exists>>
                ELSE /\ dir_exists' = (dir_exists \/ needs_dir)
                     /\ processed' = IF SignalFileWritable(kind, dir_exists')
                                     THEN processed \cup {batch_i} ELSE processed
                     /\ UNCHANGED <<skipped, dir_failed>>
  /\ batch_i' = batch_i + 1
  /\ UNCHANGED <<files, output_file, batch_op>>
  /\ UNCHANGED <<codec_vars, channel_vars, calib_vars, fault_vars, stats_vars, disc_vars, probe_vars, kmer_vars, late_vars>>

\* the loop body of process_files_sequentially: results[i] and
\* results_count[i] are set, NULL and 0 marking a failed file
process_files_sequentially ==
  /\ batch_op = "process_files_sequentially"
  /\ batch_i <= Len(files)
  /\ IF files[batch_i] = "unreadable"
     THEN /\ skipped' = skipped \cup {batch_i}
          /\ UNCHANGED processed
     ELSE /\ processed' = processed \cup {batch_i}
          /\ UNCHANGED skipped
  /\ batch_i' = batch_i + 1
  /\ UNCHANGED <<files, output_file, dir_exists, dir_failed, batch_op>>
  /\ UNCHANGED <<codec_vars, channel_vars, calib_vars, fault_vars, stats_vars, disc_vars, probe_vars, kmer_vars, late_vars>>

Init_batch ==
  /\ files \in SeqsUpTo(FileKinds, MaxFiles)
  /\ output_file \in {Null, Ptr("out")}
  /\ dir_exists \in BOOLEAN
  /\ dir_failed = FALSE
  /\ batch_op \in BatchOps
  /\ batch_i = 1
  /\ skipped = {}
  /\ processed = {}
  /\ file = Null
  /\ CodecIdle
  /\ ChannelIdle
  /\ CalibIdle
  /\ FaultIdle
  /\ StatsIdle
  /\ DiscIdle
  /\ ProbeIdle
  /\ KmerIdle
  /\ LateIdle

Next_batch ==
  \/ extract_metadata
  \/ extract_raw_signals
  \/ process_files_sequentially

SpecBatch == Init_batch /\ [][Next_batch]_vars

\* C15: in every batch loop a file whose metadata cannot be read is skipped
\* with a warning or a failed-file mark and every later file of the list is
\* still processed: the failure of one file never ends the batch.
C15_BatchContinuesAfterFailure ==
  (batch_op # "none" /\ batch_i > Len(files) /\ ~dir_failed) =>
    \A k \in 1..Len(files) :
      IF files[k] = "unreadable"
      THEN k \in skipped /\ k \notin processed
      ELSE k \in processed

----------------------------------------------------------------------------
(* File discovery: find_fast5_files and find_fast5_files_recursive.        *)
(* A directory is [openable, entries]: whether opendir succeeds and what   *)
(* readdir returns, in its order.  An entry is [name, kind, node] with     *)
(* kind what stat reports ("reg", "dir", "other", or "nostat" when stat    *)
(* fails) and node the directory behind a "dir" entry.                     *)

MaxEntries == 2

STR_fast5 == <<46, 102, 97, 115, 116, 53>>

STR_slash == <<47>>

\* is_fast5_file: len >= 6 and the last six characters are ".fast5"
is_fast5_file(name) ==
  Len(name) >= 6 /\ SubSeq(name, Len(name) - 5, Len(name)) = STR_fast5

\* Hidden that hides nothing
Hidden_Never(name) == FALSE

\* entry->d_name[0] == '.'
Hidden(name) == name[1] = 46

Entry(name, kind, node) == [name |-> name, kind |-> kind, node |-> node]

Directory(openable, entries) == [openable |-> openable, entries |-> entries]

\* snprintf(path, sizeof(path), "%s/%s", directory, entry->d_name)
JoinPath(directory, name) == directory \o STR_slash \o name

ListResult(list, count) == [files |-> list, count |-> count]

RECURSIVE find_fast5_files_recursive(_, _)
RECURSIVE ReaddirLoop(_, _, _, _)
\* the while ((entry = readdir(dir)) != NULL) loop of the recursive search
ReaddirLoop(entries, i, directory, acc) ==
  IF i > Len(entries) THEN acc
  ELSE LET e == entries[i]
           path == JoinPath(directory, e.name)
       IN  IF Hidden(e.name) THEN ReaddirLoop(entries, i + 1, directory, acc)
           ELSE IF e.kind = "nostat" THEN ReaddirLoop(entries, i + 1, directory, acc)
           ELSE IF e.kind = "dir"
           THEN LET sub == find_fast5_files_recursive(e.node, path)
                IN  ReaddirLoop(entries, i + 1, directory,
                                IF ~IsNull(sub.files) /\ sub.count > 0
                                THEN acc \o Deref(sub.files) ELSE acc)
           ELSE IF e.kind = "reg" /\ is_fast5_file(e.name)
           THEN ReaddirLoop(entries, i + 1, directory, Append(acc, path))
           ELSE ReaddirLoop(entries, i + 1, directory, acc)

\* find_fast5_files_recursive(directory, &count): NULL and 0 when the
\* directory cannot be opened or holds no match
find_fast5_files_recursive(dir, directory) ==
  IF ~dir.openable THEN ListResult(Null, 0)
  ELSE LET acc == ReaddirLoop(dir.entries, 1, directory, <<>>)
       IN  ListResult(IF acc = <<>> THEN Null ELSE Ptr(acc), Len(acc))

\* the readdir loop of the non-recursive search: no stat, the name decides
RECURSIVE FlatReaddirLoop(_, _, _, _)
FlatReaddirLoop(entries, i, directory, acc) ==
  IF i > Len(entries) THEN acc
  ELSE LET e == entries[i]
       IN  IF Hidden(e.name) THEN FlatReaddirLoop(entries, i + 1, directory, acc)
           ELSE IF is_fast5_file(e.name)
           THEN FlatReaddirLoop(entries, i + 1, directory,
                                Append(acc, JoinPath(directory, e.name)))
           ELSE FlatReaddirLoop(entries, i + 1, directory, acc)

\* find_fast5_files(input_path, recursive, &count)
find_fast5_files ==
  /\ disc_pc = "start"
  /\ alive
  /\ disc_pc' = "done"
  /\ LET exit == /\ alive' = FALSE
                 /\ found' = Null
                 /\ found_count' = 0
         return(r) == /\ alive' = TRUE
                      /\ found' = r.files
                      /\ found_count' = r.count
     IN  IF input_path.kind = "missing" THEN exit
         ELSE IF input_path.kind = "reg"
         THEN IF is_fast5_file(input_path.name)
              THEN return(ListResult(Ptr(<<input_path.name>>), 1))
              ELSE exit
         ELSE IF input_path.kind = "dir"
         THEN IF recursive
              THEN return(find_fast5_files_recursive(input_path.node, input_path.name))
              ELSE IF ~input_path.node.openable THEN exit
              ELSE LET acc == FlatReaddirLoop(input_path.node.entries, 1,
                                              input_path.name, <<>>)
                   IN  return(ListResult(IF acc = <<>> THEN Null ELSE Ptr(acc), Len(acc)))
         ELSE exit
  /\ UNCHANGED <<file, written, call, is_multi_read, meta, meta_count, signal,
                 signal_length, ret>>
  /\ UNCHANGED <<input_path, recursive>>
  /\ UNCHANGED <<channel_vars, calib_vars, fault_vars, stats_vars, batch_vars, probe_vars, kmer_vars, late_vars>>

STR_a_fast5 == <<97>> \o STR_fast5

STR_f_fast5 == <<102>> \o STR_fast5

STR_hidden_fast5 == <<46, 99>> \o STR_fast5

STR_b_txt == <<98, 46, 116, 120, 116>>

STR_d == <<100>>

STR_hidden_dir == <<46, 101>>

STR_root == <<114>>

NoNode == <<>>

\* sequences of at most n entries with pairwise different names
EntryLists(S, n) ==
  {es \in SeqsUpTo(S, n) :
     \A i, j \in 1..Len(es) : i # j => es[i].name # es[j].name}

\* the directories below the root: an unopenable one, and the openable ones
\* with up to MaxEntries regular files
SubDirectories ==
  {Directory(FALSE, <<>>)}
    \cup {Directory(TRUE, es) :
            es \in EntryLists({Entry(n, "reg", NoNode) :
                                 n \in {STR_a_fast5, STR_f_fast5, STR_b_txt}},
                              MaxEntries)}

RootEntries ==
  {Entry(STR_a_fast5, k, NoNode) : k \in {"reg", "other", "nostat"}}
    \cup {Entry(STR_hidden_fast5, "reg", NoNode)}
    \cup {Entry(STR_d, "dir", sub) : sub \in SubDirectories}
    \cup {Entry(STR_hidden_dir, "dir",
                Directory(TRUE, <<Entry(STR_a_fast5, "reg", NoNode)>>))}

\* what stat(input_path) can find
InputPaths ==
  {[kind |-> "missing", name |-> STR_root, node |-> NoNode],
   [kind |-> "other", name |-> STR_root, node |-> NoNode],
   [kind |-> "reg", name |-> STR_a_fast5, node |-> NoNode],
   [kind |-> "reg", name |-> STR_b_txt, node |-> NoNode],
   [kind |-> "dir", name |-> STR_root, node |-> Directory(FALSE, <<>>)]}
    \cup {[kind |-> "dir", name |-> STR_root, node |-> Directory(TRUE, es)] :
            es \in EntryLists(RootEntries, MaxEntries)}

Init_discovery ==
  /\ input_path \in InputPaths
  /\ recursive \in BOOLEAN
  /\ found = Null
  /\ found_count = 0
  /\ disc_pc = "start"
  /\ file = Null
  /\ CodecIdle
  /\ ChannelIdle
  /\ CalibIdle
  /\ FaultIdle
  /\ StatsIdle
  /\ BatchIdle
  /\ ProbeIdle
  /\ KmerIdle
  /\ LateIdle

Next_discovery == find_fast5_files

SpecDiscovery == Init_discovery /\ [][Next_discovery]_vars

Range(seq) == {seq[i] : i \in 1..Len(seq)}

\* the entries of a directory that are regular files ending in .fast5 and
\* whose name does not start with '.'
VisibleMatches(dir) ==
  {e \in Range(dir.entries) :
     e.kind = "reg" /\ is_fast5_file(e.name) /\ e.name[1] # 46}

\* the directories below dir that are not hidden and can be opened
VisibleSubdirs(dir) ==
  {e \in Range(dir.entries) : e.kind = "dir" /\ e.name[1] # 46 /\ e.node.openable}

\* the paths a recursive search of the tree at input_path has to list
ExpectedRecursive ==
  IF ~input_path.node.openable THEN {}
  ELSE {JoinPath(input_path.name, e.name) : e \in VisibleMatches(input_path.node)}
         \cup UNION {{JoinPath(JoinPath(input_path.name, sub.name), e.name) :
                        e \in VisibleMatches(sub.node)} :
                     sub \in VisibleSubdirs(input_path.node)}

\* the search had to open a directory that cannot be opened
MetUnopenable ==
  /\ input_path.kind = "dir"
  /\ \/ ~input_path.node.openable
     \/ /\ recursive
        /\ \E e \in Range(input_path.node.entries) :
             e.kind = "dir" /\ e.name[1] # 46 /\ ~e.node.openable

FoundSet == IF IsNull(found) THEN {} ELSE Range(Deref(found))

\* C16: a directory that cannot be opened during discovery (the root or a
\* subdirectory, recursive or not) is reported and skipped without ending
\* the run: find_fast5_files returns, with the matches of the directories
\* that could be opened.
C16_UnopenableDirectorySkipped ==
  (disc_pc = "done" /\ MetUnopenable) =>
    /\ alive
    /\ recursive => FoundSet = ExpectedRecursive

\* C17: in recursive mode find_fast5_files returns one flat list holding
\* exactly once every regular file ending in .fast5 reachable through
\* non-hidden directories and nothing else; entries starting with '.' are
\* neither listed nor descended into; a tree without matches gives a
\* successful result with zero files.
C17_RecursiveListIsExact ==
  (disc_pc = "done" /\ recursive /\ input_path.kind = "dir") =>
    /\ alive
    /\ FoundSet = ExpectedRecursive
    /\ found_count = Cardinality(ExpectedRecursive)
    /\ ~IsNull(found) => Len(Deref(found)) = found_count

\* a recursive search has listed a file of a subdirectory and left out a
\* hidden entry of the root
C17_Witness ==
  /\ disc_pc = "done"
  /\ recursive
  /\ input_path.kind = "dir"
  /\ found_count >= 1
  /\ JoinPath(JoinPath(STR_root, STR_d), STR_a_fast5) \in FoundSet
  /\ \E e \in Range(input_path.node.entries) : e.name[1] = 46

----------------------------------------------------------------------------
(* Schema detection on crafted containers: up to MaxFillers root children  *)
(* whose names sort before "Raw" and "read_", then Raw (when /Raw/Reads    *)
(* exists), then a read_ group; with or without the discriminator.         *)

MaxFillers == 5

\* the three checks of has_fast5_structure that always succeeds once the
\* file is open
Fast5Structure_Always(c) == TRUE

\* has_fast5_structure once the file is open: the three checks
Fast5Structure(c) ==
  IF ~IsNull(c.file_type) THEN TRUE
  ELSE IF \E i \in 1..Min(Len(c.root), ProbeLimit) : HasPrefix(c.root[i].name, STR_read_)
  THEN TRUE
  ELSE ~IsNull(c.reads)

\* has_fast5_structure(filename)
has_fast5_structure ==
  /\ alive
  /\ has_structure' = Ptr(IF IsNull(file) THEN FALSE ELSE Fast5Structure(Deref(file)))
  /\ UNCHANGED <<codec_vars, channel_vars, calib_vars, fault_vars, stats_vars,
                 batch_vars, disc_vars, kmer_vars, late_vars>>

IntactBody == Ptr(ReadBody(Ptr(<<97>>), Ptr(1), Ptr(0), Ptr(Dataset(<<7>>, TRUE))))

\* root children named A, B, ... (k of them)
Fillers(k) == [i \in 1..k |-> Child(<<64 + i>>, Null)]

DetectFixtures ==
  {Container(ft,
             Fillers(k)
               \o (IF IsNull(rd) THEN <<>> ELSE <<Child(STR_Raw, Null)>>)
               \o (IF grp THEN <<Child(STR_read_ \o <<97>>, IntactBody)>> ELSE <<>>),
             rd) :
     ft \in FixtureFileTypes, k \in 0..MaxFillers, grp \in BOOLEAN,
     rd \in {Null, Ptr(<<>>), Ptr(<<Child(STR_Read_ \o FormatInt(0), IntactBody)>>)}}

Init_detect ==
  /\ file \in {Null} \cup {Ptr(c) : c \in DetectFixtures}
  /\ CodecIdle
  /\ ChannelIdle
  /\ CalibIdle
  /\ AuxIdle
  /\ LateIdle

Next_detect ==
  \/ has_fast5_structure
  \/ read_fast5_metadata_with_enhancer
  \/ read_fast5_signal

SpecDetect == Init_detect /\ [][Next_detect]_vars

\* one of the first five root children carries the reserved prefix
PrefixAmongFirstFive(c) ==
  \E i \in 1..Len(c.root) : i <= 5 /\ HasPrefix(c.root[i].name, STR_read_)

\* C18: without the discriminator a container is classified multi-read iff
\* one of its first 5 root children has a name starting with read_ (later
\* children are not inspected), otherwise single-read when /Raw/Reads
\* exists; with the discriminator declaring multi-read it is multi-read.
C18_DetectionChecks ==
  (call.op # "none" /\ ~IsNull(file)) =>
    LET c == Deref(file)
    IN  /\ IsNull(c.file_type) => (is_multi_read <=> PrefixAmongFirstFive(c))
        /\ (IsNull(c.file_type) /\ ~PrefixAmongFirstFive(c) /\ ~IsNull(c.reads)
              /\ call.op = "read_metadata")
             => /\ ~is_multi_read
                /\ meta_count = Len(Deref(c.reads))
                /\ meta_count > 0 => /\ ~IsNull(meta)
                                     /\ \A i \in 1..meta_count : ~Deref(meta)[i].is_multi_read
        /\ c.file_type = Ptr(STR_multi_read) => is_multi_read

\* a container without discriminator whose only read_ group lies beyond the
\* fifth root child has been read and was not taken for multi-read
C18_Witness ==
  /\ call.op = "read_metadata"
  /\ ~IsNull(file)
  /\ IsNull(Deref(file).file_type)
  /\ Len(Deref(file).root) > 5
  /\ HasPrefix(Deref(file).root[Len(Deref(file).root)].name, STR_read_)
  /\ ~IsNull(Deref(file).reads)
  /\ ~is_multi_read
  /\ meta_count = 1

\* the container matches none of the three detector checks
Unrecognized(c) ==
  /\ IsNull(c.file_type)
  /\ ~PrefixAmongFirstFive(c)
  /\ IsNull(c.reads)

\* C19: a container that matches none of the three detector checks is
\* rejected: has_fast5_structure returns false, the metadata reader returns
\* no records (null array, count 0) and the signal reader no buffer.
C19_UnrecognizedRejected ==
  (~IsNull(file) /\ Unrecognized(Deref(file))) =>
    /\ ~IsNull(has_structure) => Deref(has_structure) = FALSE
    /\ call.op = "read_metadata" => (IsNull(meta) /\ meta_count = 0)
    /\ call.op = "read_signal" => IsNull(signal)

\* an unrecognized container that holds a read_ group beyond the fifth root
\* child has been validated and its signal asked for
C19_Witness ==
  /\ ~IsNull(file)
  /\ Unrecognized(Deref(file))
  /\ Len(Deref(file).root) > 5
  /\ has_structure = Ptr(FALSE)
  /\ call.op = "read_signal"
  /\ call.alloc_ok
  /\ IsNull(signal)


----------------------------------------------------------------------------
(* The k-mer model loader (core/kmer_model_loader.c).  A model file is a   *)
(* sequence of text lines; of a line the loader looks at its first         *)
(* whitespace-delimited token (<<>> for a blank line) and at the float     *)
(* columns that follow it.  Allocation is taken to succeed.                *)

MaxLines == 5

\* char first_kmer[32], char kmer_str[32]
KmerBufSize == 32

STR_kmer == <<107, 109, 101, 114>>

ModelLine(kmer, levels) == [kmer |-> kmer, levels |-> levels]

RECURSIVE Pow4(_)
Pow4(k) == IF k = 0 THEN 1 ELSE 4 * Pow4(k - 1)

\* (size_t)pow(4, kmer_size).  The loader only compares it with a count of
\* lines read, and 4^MaxLines already exceeds every such count, so larger
\* powers are kept at that value
NumKmers(kmer_size) == Pow4(Min(kmer_size, MaxLines))

\* sscanf(line, "%s", first_kmer): EOF on a blank line, which leaves the
\* buffer as it was
ScanKmer(line) == IF line.kmer = <<>> THEN -1 ELSE 1

\* sscanf(line, "%s %f", ...)
ScanModern(line) ==
  IF line.kmer = <<>> THEN -1 ELSE 1 + Min(Len(line.levels), 1)

\* sscanf(line, "%s %f %f %f %f %f %f", ...)
ScanLegacy(line) ==
  IF line.kmer = <<>> THEN -1 ELSE 1 + Min(Len(line.levels), 6)

\* %s stores the token and a terminating NUL: a token of KmerBufSize
\* characters or more writes past the end of the 32-byte buffer
Overflows(line) == Len(line.kmer) >= KmerBufSize

\* strlen of a first_kmer that sscanf never wrote
UninitLengths == 0 .. 2

KmerModel(kmer_size, num_kmers, level_mean, level_stddev, default_stddev) ==
  [kmer_size |-> kmer_size, num_kmers |-> num_kmers,
   level_mean |-> level_mean, level_stddev |-> level_stddev,
   default_stddev |-> default_stddev]

\* the two parse loops: while (fgets(...) && i < num_kmers); means and
\* stddevs are the arrays filled so far, error the early return NULL,
\* overflow whether a token was written past kmer_str
RECURSIVE ParseRows(_, _, _, _, _)
ParseRows(rows, is_legacy, num_kmers, means, stddevs) ==
  IF rows = <<>> \/ Len(means) >= num_kmers
  THEN [means |-> means, stddevs |-> stddevs, error |-> FALSE, overflow |-> FALSE]
  ELSE LET line == Head(rows)
           n == IF is_legacy THEN ScanLegacy(line) ELSE ScanModern(line)
       IN  IF (is_legacy /\ n < 3) \/ (~is_legacy /\ n # 2)
           THEN [means |-> means, stddevs |-> stddevs, error |-> TRUE,
                 overflow |-> Overflows(line)]
           ELSE LET rest == ParseRows(Tail(rows), is_legacy, num_kmers,
                                      Append(means, line.levels[1]),
                                      IF is_legacy
                                      THEN Append(stddevs, line.levels[2])
                                      ELSE stddevs)
                IN  [rest EXCEPT !.overflow = @ \/ Overflows(line)]

LoadOutcome(m, exited) == [model |-> m, exited |-> exited]

\* what load_kmer_model can do with the file found: the model returned, or
\* the end of the process where a write past a buffer is caught
LoadOutcomes(f) ==
  IF IsNull(f) THEN {LoadOutcome(Null, FALSE)}
  ELSE LET lines == Deref(f)
       IN  IF lines = <<>> THEN {LoadOutcome(Null, FALSE)}
           ELSE LET is_legacy == HasPrefix(lines[1].kmer, STR_kmer)
                IN  IF is_legacy /\ Len(lines) < 2 THEN {LoadOutcome(Null, FALSE)}
                    ELSE LET first == IF is_legacy THEN lines[2] ELSE lines[1]
                             rows == IF is_legacy THEN Tail(lines) ELSE lines
                             sizes == IF ScanKmer(first) = 1
                                      THEN {Len(first.kmer)}
                                      ELSE UninitLengths
                             returned(k) ==
                               LET p == ParseRows(rows, is_legacy, NumKmers(k), <<>>, <<>>)
                               IN  {LoadOutcome(
                                      IF p.error \/ Len(p.means) # NumKmers(k)
                                      THEN Null
                                      ELSE Ptr(KmerModel(k, NumKmers(k), p.means,
                                                         IF is_legacy THEN Ptr(p.stddevs) ELSE Null,
                                                         IF is_legacy THEN Fraction(0, 1) ELSE Fraction(3, 2))),
                                      FALSE)}
                                   \cup (IF Overflows(first) \/ p.overflow
                                         THEN {LoadOutcome(Null, TRUE)}
                                         ELSE {})
                         IN  UNION {returned(k) : k \in sizes}

\* load_kmer_model(models_dir, model_name)
load_kmer_model ==
  /\ kmer_pc = "start"
  /\ alive
  /\ kmer_pc' = "done"
  /\ \E o \in LoadOutcomes(model_file) :
       /\ model' = o.model
       /\ alive' = ~o.exited
  /\ UNCHANGED <<file, written, call, is_multi_read, meta, meta_count, signal,
                 signal_length, ret>>
  /\ UNCHANGED model_file
  /\ UNCHANGED <<channel_vars, calib_vars, fault_vars, stats_vars, batch_vars,
                 disc_vars, probe_vars, late_vars>>

STR_long_token == [i \in 1..KmerBufSize |-> 65]

ModelLines ==
  { ModelLine(STR_kmer, <<>>),        \* the header of a legacy file
    ModelLine(<<65>>, <<50>>),        \* a 1-mer with its level
    ModelLine(<<67>>, <<60, 2>>),     \* a 1-mer with level and stddev
    ModelLine(<<65, 65>>, <<50>>),    \* a 2-mer
    ModelLine(<<>>, <<>>),            \* a blank line
    ModelLine(STR_long_token, <<50>>) }

Init_kmer ==
  /\ model_file \in {Null} \cup {Ptr(l) : l \in SeqsUpTo(ModelLines, MaxLines)}
  /\ model = Null
  /\ kmer_pc = "start"
  /\ file = Null
  /\ CodecIdle
  /\ ChannelIdle
  /\ CalibIdle
  /\ FaultIdle
  /\ StatsIdle
  /\ BatchIdle
  /\ DiscIdle
  /\ ProbeIdle
  /\ LateIdle

Next_kmer == load_kmer_model

SpecKmer == Init_kmer /\ [][Next_kmer]_vars

\* the rows of the table: every line but the header of a legacy file
TableRows(lines) ==
  IF lines # <<>> /\ HasPrefix(lines[1].kmer, STR_kmer) THEN Tail(lines) ELSE lines

\* the number of rows holding a k-mer and the levels of their format
ParseableRows(lines) ==
  LET need == IF lines # <<>> /\ HasPrefix(lines[1].kmer, STR_kmer) THEN 2 ELSE 1
      rows == TableRows(lines)
  IN  Cardinality({i \in 1..Len(rows) :
                     rows[i].kmer # <<>> /\ Len(rows[i].levels) >= need})

\* the file holds a complete table: a first k-mer of length k and at
\* least 4^k parseable rows
CompleteTable(lines) ==
  /\ TableRows(lines) # <<>>
  /\ TableRows(lines)[1].kmer # <<>>
  /\ Len(TableRows(lines)[1].kmer) <= MaxLines
  /\ ParseableRows(lines) >= Pow4(Len(TableRows(lines)[1].kmer))

\* C20: load_kmer_model returns NULL when no model file exists; when one
\* exists it returns, and it returns a model only for a complete table,
\* with kmer_size the length k of the first k-mer, num_kmers = 4^k and one
\* parsed level per k-mer; a file with fewer than 4^k parseable rows
\* yields NULL.
C20_LoaderNeedsCompleteTable ==
  kmer_pc = "done" =>
    /\ alive
    /\ IsNull(model_file) => IsNull(model)
    /\ ~IsNull(model) =>
         /\ ~IsNull(model_file)
         /\ CompleteTable(Deref(model_file))
         /\ Deref(model).kmer_size = Len(TableRows(Deref(model_file))[1].kmer)
         /\ Deref(model).num_kmers = Pow4(Deref(model).kmer_size)
         /\ Len(Deref(model).level_mean) = Deref(model).num_kmers
    /\ (~IsNull(model_file) /\ ~CompleteTable(Deref(model_file))) => IsNull(model)


----------------------------------------------------------------------------
(* The k-mer signal generator (squiggle_kmer of core/seqgen_models.c) and  *)
(* its process-wide cache of the loaded model.  Levels are integers, the   *)
(* averages of a decimated table and the dwell are unreduced fractions.    *)

MaxBases == 3

\* char cached_model_id[512], char model_id[512]
IdBufSize == 512

\* kmer_size > 9 is refused
MaxKmerSize == 9

\* snprintf(buf, size, ...): at most size - 1 characters are kept
Snprintf(s, size) == IF Len(s) >= size THEN SubSeq(s, 1, size - 1) ELSE s

\* snprintf(model_id, sizeof(model_id), "%s/%s", models_dir, model_name)
ModelId(models_dir, model_name) ==
  Snprintf(models_dir \o STR_slash \o model_name, IdBufSize)

\* strncpy(cached_model_id, model_id, sizeof(cached_model_id) - 1) and the
\* terminating NUL
Strncpy(s, size) == IF Len(s) > size - 1 THEN SubSeq(s, 1, size - 1) ELSE s

RECURSIVE SumRange(_, _, _)
SumRange(a, lo, hi) == IF lo > hi THEN 0 ELSE a[lo] + SumRange(a, lo + 1, hi)

\* kmer_index = kmer_index * 4 + base over the window
RECURSIVE KmerIndex(_)
KmerIndex(w) ==
  IF w = <<>> THEN 0 ELSE KmerIndex(SubSeq(w, 1, Len(w) - 1)) * 4 + w[Len(w)]

\* the averaged table of the k-mers of size kmer_size (lines 116-150)
Decimate(levels, kmer_size, loaded_kmer_size) ==
  LET decimation_factor == Pow4(loaded_kmer_size - kmer_size)
  IN  [k_idx \in 1..Pow4(kmer_size) |->
         Fraction(SumRange(levels, (k_idx - 1) * decimation_factor + 1,
                           k_idx * decimation_factor),
                  decimation_factor)]

Tensor_Transposed(rows, cols, data) == [shape |-> <<cols, rows>>, data |-> data]

Tensor(rows, cols, data) == [shape |-> <<rows, cols>>, data |-> data]

\* lines 102-209: the tensor made from the cached model m (Null for NULL)
Generate(m, sequence, kmer_size, sample_rate_khz) ==
  IF kmer_size > m.kmer_size THEN Null
  ELSE LET lookup_mean ==
             IF kmer_size = m.kmer_size
             THEN [i \in 1..Len(m.level_mean) |-> Fraction(m.level_mean[i], 1)]
             ELSE Decimate(m.level_mean, kmer_size, m.kmer_size)
           lookup_stddev ==
             IF IsNull(m.level_stddev) THEN Null
             ELSE IF kmer_size = m.kmer_size
             THEN Ptr([i \in 1..Len(Deref(m.level_stddev)) |->
                         Fraction(Deref(m.level_stddev)[i], 1)])
             ELSE Ptr(Decimate(Deref(m.level_stddev), kmer_size, m.kmer_size))
           num_sequence_kmers == Len(sequence) - kmer_size + 1
           window(i) == SubSeq(sequence, i, i + kmer_size - 1)
           row(i) == <<lookup_mean[KmerIndex(window(i)) + 1],
                       IF IsNull(lookup_stddev) THEN m.default_stddev
                       ELSE Deref(lookup_stddev)[KmerIndex(window(i)) + 1],
                       Fraction(10 * sample_rate_khz, 4)>>
       IN  IF \E i \in 1..num_sequence_kmers :
                \E j \in 1..kmer_size : window(i)[j] < 0 \/ window(i)[j] > 3
           THEN Null
           ELSE Ptr(Tensor(num_sequence_kmers, 3,
                           [i \in 1..num_sequence_kmers |-> row(i)]))

STR_models == <<109>>
STR_model_a == <<97>>
STR_model_b == <<98>>
STR_model_none == <<120>>
STR_deep_dir == [i \in 1..(IdBufSize - 3) |-> 100]
STR_model_ab == <<97, 98>>
STR_model_ac == <<97, 99>>

\* a modern table of 1-mers whose levels start above base
OneMerFile(base) == [i \in 1..4 |-> ModelLine(<<65>>, <<base + i>>)]

\* a legacy table of 2-mers with level and stddev columns
TwoMerFile ==
  <<ModelLine(STR_kmer, <<>>)>>
    \o [i \in 1..16 |-> ModelLine(<<65, 65>>, <<60 + i, i>>)]

\* the file fopen finds under models_dir/model_name (Null when none)
ModelFileAt(models_dir, model_name) ==
  IF models_dir = STR_models /\ model_name = STR_model_a THEN Ptr(OneMerFile(50))
  ELSE IF models_dir = STR_models /\ model_name = STR_model_b THEN Ptr(TwoMerFile)
  ELSE IF models_dir = STR_deep_dir /\ model_name = STR_model_ab THEN Ptr(OneMerFile(10))
  ELSE IF models_dir = STR_deep_dir /\ model_name = STR_model_ac THEN Ptr(OneMerFile(20))
  ELSE Null

Params(models_dir, model_name, kmer_size, sequence, sample_rate_khz) ==
  [models_dir |-> models_dir, model_name |-> model_name, kmer_size |-> kmer_size,
   sequence |-> sequence, sample_rate_khz |-> sample_rate_khz]

\* squiggle_kmer(sequence, n, transform_units, params)
squiggle_kmer(params) ==
  /\ alive
  /\ sq_params' = params
  /\ LET kmer_size == params.kmer_size
         model_id == ModelId(params.models_dir, params.model_name)
     IN  IF kmer_size <= 0 \/ kmer_size > MaxKmerSize \/ Len(params.sequence) < kmer_size
         THEN /\ squiggle' = Null
              /\ UNCHANGED <<cached_model, cached_model_id, alive>>
         ELSE IF IsNull(cached_model) \/ cached_model_id # model_id
         THEN \E o \in LoadOutcomes(ModelFileAt(params.models_dir, params.model_name)) :
                /\ alive' = ~o.exited
                /\ cached_model' = o.model
                /\ IF IsNull(o.model)
                   THEN /\ squiggle' = Null
                        /\ UNCHANGED cached_model_id
                   ELSE /\ cached_model_id' = Strncpy(model_id, IdBufSize)
                        /\ squiggle' = Generate(Deref(o.model), params.sequence,
                                                kmer_size, params.sample_rate_khz)
         ELSE /\ squiggle' = Generate(Deref(cached_model), params.sequence,
                                      kmer_size, params.sample_rate_khz)
              /\ UNCHANGED <<cached_model, cached_model_id, alive>>
  /\ UNCHANGED <<file, written, call, is_multi_read, meta, meta_count, signal,
                 signal_length, ret>>
  /\ UNCHANGED <<channel_vars, calib_vars, aux_vars, life_vars, diag_vars,
                 handle_vars, tail_vars>>

ModelIdentifiers ==
  { <<STR_models, STR_model_a>>, <<STR_models, STR_model_b>>,
    <<STR_models, STR_model_none>>,
    <<STR_deep_dir, STR_model_ab>>, <<STR_deep_dir, STR_model_ac>> }

BaseCodes == {-1, 0, 3, 4}

RequestedSizes == {0, 1, 2, 10}

\* the cache after a successful call for identifier id
CacheOf(id) ==
  [model |-> (CHOOSE o \in LoadOutcomes(ModelFileAt(id[1], id[2])) : ~o.exited).model,
   id |-> Strncpy(ModelId(id[1], id[2]), IdBufSize)]

\* one call, from an empty cache or from the cache a former call left
squiggle_kmer_once ==
  /\ sq_params = NoParams
  /\ \E id \in ModelIdentifiers, k \in RequestedSizes,
        seq \in SeqsUpTo(BaseCodes, MaxBases) :
       squiggle_kmer(Params(id[1], id[2], k, seq, 4))

Init_squiggle ==
  /\ \/ cached_model = Null /\ cached_model_id = <<>>
     \/ \E id \in ModelIdentifiers :
          /\ ~IsNull(CacheOf(id).model)
          /\ cached_model = CacheOf(id).model
          /\ cached_model_id = CacheOf(id).id
  /\ sq_params = NoParams
  /\ squiggle = Null
  /\ file = Null
  /\ CodecIdle
  /\ ChannelIdle
  /\ CalibIdle
  /\ AuxIdle
  /\ LifeIdle
  /\ DiagIdle
  /\ HandleIdle
  /\ TailIdle

Next_squiggle == squiggle_kmer_once

SpecSquiggle == Init_squiggle /\ [][Next_squiggle]_vars

ValidBases(sequence) == \A i \in 1..Len(sequence) : sequence[i] \in 0..3

\* C21: for n valid bases and a size k with 1 <= k <= 9, k <= n and k not
\* larger than the loaded model's size, squiggle_kmer returns a tensor of
\* shape [n-k+1, 3], also when k is smaller than the model's size; it
\* returns NULL when k exceeds the model's size, when n < k, or when a base
\* is outside 0..3.
C21_SquiggleShape ==
  (sq_params # NoParams /\ alive) =>
    LET n == Len(sq_params.sequence)
        k == sq_params.kmer_size
    IN  /\ ( /\ ValidBases(sq_params.sequence)
             /\ 1 <= k /\ k <= MaxKmerSize /\ k <= n
             /\ ~IsNull(cached_model)
             /\ k <= Deref(cached_model).kmer_size )
           => /\ ~IsNull(squiggle)
              /\ Deref(squiggle).shape = <<n - k + 1, 3>>
              /\ Len(Deref(squiggle).data) = n - k + 1
              /\ \A i \in 1..(n - k + 1) : Len(Deref(squiggle).data[i]) = 3
        /\ (~IsNull(cached_model) /\ k > Deref(cached_model).kmer_size)
           => IsNull(squiggle)
        /\ n < k => IsNull(squiggle)
        /\ ~ValidBases(sq_params.sequence) => IsNull(squiggle)

\* a tensor was made by decimation of a larger model, of more than one row
C21_Witness ==
  /\ ~IsNull(squiggle)
  /\ ~IsNull(cached_model)
  /\ sq_params.kmer_size < Deref(cached_model).kmer_size
  /\ Deref(squiggle).shape[1] > 1

----------------------------------------------------------------------------
(* Lifecycle of the metadata arrays: every call of the metadata reader     *)
(* that returns an array is an allocation, named by its call site and the  *)
(* index of the file; free_fast5_metadata releases the array and the       *)
(* strings its records own in one batch.                                   *)

\* read_fast5_metadata_with_enhancer as a function of the file's content
ReaderResult(f) ==
  IF IsNull(f) THEN [metadata |-> Null, count |-> 0]
  ELSE IF DetectMultiRead(Deref(f))
  THEN read_multi_read_metadata_with_enhancer(Deref(f))
  ELSE read_single_read_metadata_with_enhancer(Deref(f))

Heap(allocs, frees) == [allocs |-> allocs, frees |-> frees]

\* display_fast5_info(filename, verbose) on file i: the array is released
\* at the end, the early return of line 66 does not release it
DisplayInfo(fs, i) ==
  LET r == ReaderResult(fs[i])
      id == <<"display_fast5_info", i>>
  IN  IF IsNull(r.metadata) THEN Heap({}, <<>>)
      ELSE IF r.count = 0 THEN Heap({id}, <<>>)
      ELSE Heap({id}, <<id>>)

RECURSIVE DisplayAll(_, _)
DisplayAll(fs, i) ==
  IF i > Len(fs) THEN Heap({}, <<>>)
  ELSE LET h == DisplayInfo(fs, i)
           rest == DisplayAll(fs, i + 1)
       IN  Heap(h.allocs \cup rest.allocs, h.frees \o rest.frees)

\* process_files_sequentially: results[i] keeps the array only when it has
\* records; step 10 of main_fast5 releases what results[] keeps
RECURSIVE ProcessAndCleanup(_, _)
ProcessAndCleanup(fs, i) ==
  IF i > Len(fs) THEN Heap({}, <<>>)
  ELSE LET r == ReaderResult(fs[i])
           id == <<"process_files_sequentially", i>>
           rest == ProcessAndCleanup(fs, i + 1)
       IN  IF IsNull(r.metadata) THEN rest
           ELSE IF r.count > 0
           THEN Heap({id} \cup rest.allocs, <<id>> \o rest.frees)
           ELSE Heap({id} \cup rest.allocs, rest.frees)

\* the loop of extract_metadata: continue on (!metadata || count == 0),
\* free_fast5_metadata after the rows are written
RECURSIVE ExtractMetadataLoop(_, _)
ExtractMetadataLoop(fs, i) ==
  IF i > Len(fs) THEN Heap({}, <<>>)
  ELSE LET r == ReaderResult(fs[i])
           id == <<"extract_metadata", i>>
           rest == ExtractMetadataLoop(fs, i + 1)
       IN  IF IsNull(r.metadata) THEN rest
           ELSE IF r.count = 0 THEN Heap({id} \cup rest.allocs, rest.frees)
           ELSE Heap({id} \cup rest.allocs, <<id>> \o rest.frees)

\* the loop of extract_raw_signals: continue on (!metadata || count == 0);
\* a failed create_directory releases the array and continues, otherwise it
\* is released after the reads are written
RECURSIVE ExtractRawLoop(_, _)
ExtractRawLoop(fs, i) ==
  IF i > Len(fs) THEN Heap({}, <<>>)
  ELSE LET r == ReaderResult(fs[i])
           id == <<"extract_raw_signals", i>>
           rest == ExtractRawLoop(fs, i + 1)
       IN  IF IsNull(r.metadata) THEN rest
           ELSE IF r.count = 0 THEN Heap({id} \cup rest.allocs, rest.frees)
           ELSE Heap({id} \cup rest.allocs, <<id>> \o rest.frees)

Ran(caller, h) ==
  /\ lc_caller = "none"
  /\ alive
  /\ lc_caller' = caller
  /\ allocated' = h.allocs
  /\ released' = h.frees
  /\ UNCHANGED lc_files
  /\ UNCHANGED <<codec_vars, channel_vars, calib_vars, aux_vars, sq_vars, diag_vars,
                 handle_vars, tail_vars>>

\* display_fast5_info(fast5_files[0], verbose)
display_fast5_info ==
  /\ Len(lc_files) >= 1
  /\ Ran("display_fast5_info", DisplayInfo(lc_files, 1))

\* main_fast5 without --debug: one file is displayed; several are processed
\* sequentially, displayed when verbose, summarised and cleaned up
main_fast5 ==
  /\ Len(lc_files) >= 1
  /\ \E verbose \in BOOLEAN :
       Ran("main_fast5",
           IF Len(lc_files) = 1 THEN DisplayInfo(lc_files, 1)
           ELSE LET p == ProcessAndCleanup(lc_files, 1)
                    v == IF verbose THEN DisplayAll(lc_files, 1) ELSE Heap({}, <<>>)
                IN  Heap(p.allocs \cup v.allocs, v.frees \o p.frees))

\* extract_metadata(fs, file_count, output_file, verbose)
extract_metadata_arrays ==
  /\ alive
  /\ Ran("extract_metadata", ExtractMetadataLoop(lc_files, 1))

\* extract_raw_signals(fs, file_count, output_file, all_reads, verbose)
extract_raw_signals_arrays ==
  /\ alive
  /\ Ran("extract_raw_signals", ExtractRawLoop(lc_files, 1))

\* a multi-read file whose only read_ entry cannot be opened as a group
\* with a Raw subgroup, and a single-read file whose only read cannot be
\* opened: the reader returns an array with zero records
LifecycleFiles ==
  { Null,
    Ptr(Container(Ptr(STR_multi_read), <<Child(STR_read_ \o <<97>>, IntactBody)>>, Null)),
    Ptr(Container(Null, <<Child(STR_read_ \o <<97>>, Null)>>, Null)),
    Ptr(Container(Null, <<Child(STR_Raw, Null)>>,
                  Ptr(<<Child(STR_Read_ \o FormatInt(0), IntactBody)>>))),
    Ptr(Container(Null, <<Child(STR_Raw, Null)>>,
                  Ptr(<<Child(STR_Read_ \o FormatInt(0), Null)>>))) }

Init_lifecycle ==
  /\ lc_files \in SeqsUpTo(LifecycleFiles, MaxFiles)
  /\ lc_caller = "none"
  /\ allocated = {}
  /\ released = <<>>
  /\ file = Null
  /\ CodecIdle
  /\ ChannelIdle
  /\ CalibIdle
  /\ AuxIdle
  /\ SquiggleIdle
  /\ DiagIdle
  /\ HandleIdle
  /\ TailIdle

Next_lifecycle ==
  \/ display_fast5_info
  \/ main_fast5
  \/ extract_metadata_arrays
  \/ extract_raw_signals_arrays

SpecLifecycle == Init_lifecycle /\ [][Next_lifecycle]_vars

\* the number of times an array was passed to free_fast5_metadata
TimesReleased(id) == Cardinality({i \in 1..Len(released) : released[i] = id})

\* C22: every array the metadata reader allocates is released exactly once
\* by its caller, on every path of display_fast5_info, main_fast5,
\* extract_metadata and extract_raw_signals, also when the array holds zero
\* records; none is leaked and none is freed twice.
C22_ArraysReleasedOnce ==
  lc_caller # "none" =>
    /\ \A id \in allocated : TimesReleased(id) = 1
    /\ \A i \in 1..Len(released) : released[i] \in allocated

----------------------------------------------------------------------------
(* Diagnostic reporting during probes.  The HDF5 library reports a failed  *)
(* call through the automatic reporting of the default error stack         *)
(* (H5E_DEFAULT); H5Eset_auto2 changes the setting of the stack it is      *)
(* given.  A probing operation is traced as the library calls it makes,    *)
(* each with the setting of the default stack in force at the call.        *)

LibCall(name, reporting) == [name |-> name, reporting |-> reporting]

\* the calls of has_fast5_structure between H5Fopen and H5Fclose
StructureCalls(c) ==
  <<"H5Aexists">>
    \o (IF ~IsNull(c.file_type) THEN <<>>
        ELSE <<"H5Gget_num_objs">>
               \o [i \in 1..Min(Len(c.root), ProbeLimit) |-> "H5Gget_objname_by_idx"]
               \o (IF \E i \in 1..Min(Len(c.root), ProbeLimit) :
                        HasPrefix(c.root[i].name, STR_read_)
                   THEN <<>> ELSE <<"H5Lexists">>))
    \o <<"H5Fclose">>

Traced(calls, reporting) == [i \in 1..Len(calls) |-> LibCall(calls[i], reporting)]

Probed(op, trace, setting) ==
  /\ probe_op = "none"
  /\ alive
  /\ probe_op' = op
  /\ auto_before' = err_auto
  /\ probe_trace' = trace
  /\ err_auto' = setting
  /\ UNCHANGED <<codec_vars, channel_vars, calib_vars, aux_vars, sq_vars, life_vars,
                 handle_vars, tail_vars>>

\* is_valid_hdf5_file(filename): H5Eget_auto2 / H5Eset_auto2(H5E_DEFAULT,
\* NULL, NULL) around H5Fopen and H5Fclose, then the old setting is put back
is_valid_hdf5_file ==
  /\ alive
  /\ Probed("is_valid_hdf5_file",
            Traced(<<"H5Fopen">> \o (IF IsNull(file) THEN <<>> ELSE <<"H5Fclose">>),
                   FALSE),
            err_auto)

\* has_fast5_structure(filename): H5Ecreate_stack and H5Eset_auto2 on the
\* stack created, which leaves the default stack as it was
has_fast5_structure_probe ==
  /\ alive
  /\ \E stack_created \in BOOLEAN :
       Probed("has_fast5_structure",
              Traced(<<"H5Fopen">>
                       \o (IF IsNull(file) THEN <<>> ELSE StructureCalls(Deref(file))),
                     err_auto),
              err_auto)

\* the file open of read_fast5_metadata_with_enhancer (lines 612-623)
open_for_metadata ==
  /\ alive
  /\ Probed("read_fast5_metadata_with_enhancer", Traced(<<"H5Fopen">>, FALSE), err_auto)

\* the file open of read_fast5_signal (lines 673-684)
open_for_signal ==
  /\ alive
  /\ Probed("read_fast5_signal", Traced(<<"H5Fopen">>, FALSE), err_auto)

Init_diag ==
  /\ file \in {Null} \cup {Ptr(c) : c \in DetectFixtures}
  /\ err_auto \in BOOLEAN
  /\ auto_before = err_auto
  /\ probe_op = "none"
  /\ probe_trace = <<>>
  /\ CodecIdle
  /\ ChannelIdle
  /\ CalibIdle
  /\ AuxIdle
  /\ SquiggleIdle
  /\ LifeIdle
  /\ HandleIdle
  /\ TailIdle

Next_diag ==
  \/ is_valid_hdf5_file
  \/ has_fast5_structure_probe
  \/ open_for_metadata
  \/ open_for_signal

SpecDiag == Init_diag /\ [][Next_diag]_vars

\* C23: every probing operation has the default diagnostic reporting
\* disabled during all of its probing calls, and when it returns, found or
\* not, the setting equals the setting before the call.
C23_ProbesSuppressDiagnostics ==
  probe_op # "none" =>
    /\ \A i \in 1..Len(probe_trace) : ~probe_trace[i].reporting
    /\ err_auto = auto_before

----------------------------------------------------------------------------
(* HDF5 handles of the readers.  A reader call is the sequence of its      *)
(* events: the open and the close of each handle, the call of the          *)
(* enhancer, and the completion of a record (the increment of count).     *)

Open(h) == <<"open", h>>
Close(h) == <<"close", h>>
CallEnhancer == <<"call", "enhancer">>
RecordDone == <<"record", "metadata">>

\* read_string_attribute: H5Aopen, H5Aget_type, H5Tclose, H5Aclose
StringAttrEvents(present) ==
  IF ~present THEN <<>>
  ELSE <<Open("attr"), Open("type"), Close("type"), Close("attr")>>

\* read_uint32_attribute, read_double_attribute: H5Aopen, H5Aclose
NumAttrEvents(present) ==
  IF ~present THEN <<>> ELSE <<Open("attr"), Close("attr")>>

\* get_signal_length and the extent query of the signal readers
SpaceEvents == <<Open("space"), Close("space")>>

ReaderEnv(enhancer, channel_group, channel_attrs, alloc_ok) ==
  [enhancer |-> enhancer, channel_group |-> channel_group,
   channel_attrs |-> channel_attrs, alloc_ok |-> alloc_ok]

\* extract_channel_number followed by extract_calibration_parameters
EnhancerEvents(env) ==
  IF ~env.enhancer THEN <<>>
  ELSE <<CallEnhancer>>
         \o (IF ~env.channel_group THEN <<>>
             ELSE <<Open("channel_group")>>
                    \o StringAttrEvents(env.channel_attrs)
                    \o <<Close("channel_group")>>)
         \o (IF ~env.channel_group THEN <<>>
             ELSE <<Open("channel_group")>>
                    \o NumAttrEvents(env.channel_attrs)
                    \o NumAttrEvents(env.channel_attrs)
                    \o NumAttrEvents(env.channel_attrs)
                    \o <<Close("channel_group")>>)

RecordEvents_EnhancerAfterClose(body, env) ==
  StringAttrEvents(~IsNull(body.read_id))
    \o NumAttrEvents(~IsNull(body.duration))
    \o NumAttrEvents(~IsNull(body.read_number))
    \o (IF IsNull(body.signal) THEN <<>>
        ELSE <<Open("dataset")>> \o SpaceEvents \o <<Close("dataset")>>
               \o EnhancerEvents(env))

\* the attributes, the Signal dataset and the enhancer of one read
RecordEvents(body, env) ==
  StringAttrEvents(~IsNull(body.read_id))
    \o NumAttrEvents(~IsNull(body.duration))
    \o NumAttrEvents(~IsNull(body.read_number))
    \o (IF IsNull(body.signal) THEN <<>>
        ELSE <<Open("dataset")>> \o SpaceEvents \o EnhancerEvents(env)
               \o <<Close("dataset")>>)

RECURSIVE SingleMetaLoop(_, _)
SingleMetaLoop(reads, env) ==
  IF reads = <<>> THEN <<>>
  ELSE IF IsNull(Head(reads).body) THEN SingleMetaLoop(Tail(reads), env)
  ELSE <<Open("read_group")>>
         \o RecordEvents(Deref(Head(reads).body), env)
         \o <<Close("read_group"), RecordDone>>
         \o SingleMetaLoop(Tail(reads), env)

SingleMetaEvents_LeaksOnEmpty(c, env) ==
  IF IsNull(c.reads) THEN <<>>
  ELSE IF Len(Deref(c.reads)) = 0 \/ ~env.alloc_ok
  THEN <<Open("reads_group")>>
  ELSE <<Open("reads_group")>>
         \o SingleMetaLoop(Deref(c.reads), env)
         \o (IF ~env.channel_group THEN <<>>
             ELSE <<Open("channel_group")>> \o NumAttrEvents(env.channel_attrs)
                    \o <<Close("channel_group")>>)
         \o <<Close("reads_group")>>

\* read_single_read_metadata_with_enhancer(file_id, ...)
SingleMetaEvents(c, env) ==
  IF IsNull(c.reads) THEN <<>>
  ELSE IF Len(Deref(c.reads)) = 0 \/ ~env.alloc_ok
  THEN <<Open("reads_group"), Close("reads_group")>>
  ELSE <<Open("reads_group")>>
         \o SingleMetaLoop(Deref(c.reads), env)
         \o (IF ~env.channel_group THEN <<>>
             ELSE <<Open("channel_group")>> \o NumAttrEvents(env.channel_attrs)
                    \o <<Close("channel_group")>>)
         \o <<Close("reads_group")>>

RECURSIVE MultiMetaLoop(_, _)
MultiMetaLoop(root, env) ==
  IF root = <<>> THEN <<>>
  ELSE IF ~HasPrefix(Head(root).name, STR_read_) THEN MultiMetaLoop(Tail(root), env)
  ELSE IF IsNull(Head(root).body)
  THEN <<Open("read_group"), Close("read_group")>> \o MultiMetaLoop(Tail(root), env)
  ELSE <<Open("read_group"), Open("raw_group")>>
         \o RecordEvents(Deref(Head(root).body), env)
         \o (IF ~env.channel_group THEN <<>>
             ELSE <<Open("channel_group")>> \o NumAttrEvents(env.channel_attrs)
                    \o <<Close("channel_group")>>)
         \o <<Close("raw_group"), Close("read_group"), RecordDone>>
         \o MultiMetaLoop(Tail(root), env)

\* read_multi_read_metadata_with_enhancer(file_id, ...)
MultiMetaEvents(c, env) ==
  IF CountReadGroups(c.root) = 0 \/ ~env.alloc_ok THEN <<>>
  ELSE MultiMetaLoop(c.root, env)

\* read_fast5_metadata_with_enhancer(filename, &count, enhancer)
MetadataEvents(f, env) ==
  IF IsNull(f) THEN <<>>
  ELSE <<Open("file")>>
         \o (IF DetectMultiRead(Deref(f)) THEN MultiMetaEvents(Deref(f), env)
             ELSE SingleMetaEvents(Deref(f), env))
         \o <<Close("file")>>

\* whether the Signal dataset of a read yields a buffer
YieldsSignal(body, alloc_ok) ==
  /\ ~IsNull(body.signal)
  /\ Len(Deref(body.signal).data) > 0
  /\ alloc_ok
  /\ Deref(body.signal).readable

\* one read of the search loops of the signal readers, inside its groups
SignalReadEvents(body, read_id) ==
  IF ~IsNull(read_id) /\ body.read_id # read_id
  THEN StringAttrEvents(~IsNull(body.read_id))
  ELSE (IF IsNull(read_id) THEN <<>> ELSE StringAttrEvents(TRUE))
         \o (IF IsNull(body.signal) THEN <<>>
             ELSE <<Open("dataset")>> \o SpaceEvents \o <<Close("dataset")>>)

Taken(body, read_id, alloc_ok) ==
  (IsNull(read_id) \/ body.read_id = read_id) /\ YieldsSignal(body, alloc_ok)

RECURSIVE SingleSignalEventsLoop(_, _, _)
SingleSignalEventsLoop(reads, read_id, alloc_ok) ==
  IF reads = <<>> THEN <<>>
  ELSE IF IsNull(Head(reads).body)
  THEN SingleSignalEventsLoop(Tail(reads), read_id, alloc_ok)
  ELSE <<Open("read_group")>>
         \o SignalReadEvents(Deref(Head(reads).body), read_id)
         \o <<Close("read_group")>>
         \o (IF Taken(Deref(Head(reads).body), read_id, alloc_ok) THEN <<>>
             ELSE SingleSignalEventsLoop(Tail(reads), read_id, alloc_ok))

RECURSIVE MultiSignalEventsLoop(_, _, _)
MultiSignalEventsLoop(root, read_id, alloc_ok) ==
  IF root = <<>> THEN <<>>
  ELSE IF ~HasPrefix(Head(root).name, STR_read_)
  THEN MultiSignalEventsLoop(Tail(root), read_id, alloc_ok)
  ELSE IF IsNull(Head(root).body)
  THEN <<Open("read_group"), Close("read_group")>>
         \o MultiSignalEventsLoop(Tail(root), read_id, alloc_ok)
  ELSE <<Open("read_group"), Open("raw_group")>>
         \o SignalReadEvents(Deref(Head(root).body), read_id)
         \o <<Close("raw_group"), Close("read_group")>>
         \o (IF Taken(Deref(Head(root).body), read_id, alloc_ok) THEN <<>>
             ELSE MultiSignalEventsLoop(Tail(root), read_id, alloc_ok))

\* read_fast5_signal(filename, read_id, &signal_length)
SignalEvents(f, read_id, alloc_ok) ==
  IF IsNull(f) THEN <<>>
  ELSE <<Open("file")>>
         \o (IF DetectMultiRead(Deref(f))
             THEN MultiSignalEventsLoop(Deref(f).root, read_id, alloc_ok)
             ELSE IF IsNull(Deref(f).reads) THEN <<>>
             ELSE <<Open("reads_group")>>
                    \o SingleSignalEventsLoop(Deref(Deref(f).reads), read_id, alloc_ok)
                    \o <<Close("reads_group")>>)
         \o <<Close("file")>>

\* the handle table of the library after one more event on file i
RECURSIVE RemoveFirst(_, _)
RemoveFirst(hs, h) ==
  IF hs = <<>> THEN <<>>
  ELSE IF Head(hs) = h THEN Tail(hs)
  ELSE <<Head(hs)>> \o RemoveFirst(Tail(hs), h)

\* the handle table after the events of a call on file i
RECURSIVE HandlesAfter(_, _, _)
HandlesAfter(handles, events, i) ==
  IF events = <<>> THEN handles
  ELSE LET e == Head(events)
       IN  IF e[1] = "open"
           THEN HandlesAfter(Append(handles, <<i, e[2]>>), Tail(events), i)
           ELSE IF e[1] = "close"
           THEN HandlesAfter(RemoveFirst(handles, <<i, e[2]>>), Tail(events), i)
           ELSE HandlesAfter(handles, Tail(events), i)

\* whether event k of a call on file i is sound in the table it meets: a
\* close needs its handle open, the open of a file needs no handle open
\* on another file
SoundEvent(handles, events, k, i) ==
  LET before == HandlesAfter(handles, SubSeq(events, 1, k - 1), i)
  IN  IF events[k][1] = "close"
      THEN \E n \in 1..Len(before) : before[n] = <<i, events[k][2]>>
      ELSE IF events[k] = Open("file")
      THEN \A n \in 1..Len(before) : before[n][1] = i
      ELSE TRUE

Ran_reader(i, events, this_call) ==
  /\ alive
  /\ hd_i' = i
  /\ hd_call' = this_call
  /\ hd_events' = events
  /\ open_handles' = HandlesAfter(open_handles, events, i)
  /\ hd_sound' = (hd_sound /\ \A k \in 1..Len(events) :
                                SoundEvent(open_handles, events, k, i))
  /\ UNCHANGED hd_files
  /\ UNCHANGED <<codec_vars, channel_vars, calib_vars, aux_vars, sq_vars, life_vars,
                 diag_vars, tail_vars>>

\* the metadata read of the next file of the batch
read_metadata_of_next_file ==
  /\ hd_i < Len(hd_files)
  /\ \E enhancer \in BOOLEAN, channel_group \in BOOLEAN, alloc_ok \in BOOLEAN :
       Ran_reader(hd_i + 1,
                  MetadataEvents(hd_files[hd_i + 1],
                                 ReaderEnv(enhancer, channel_group, channel_group, alloc_ok)),
                  [op |-> "metadata", enhancer |-> enhancer,
                   channel_group |-> channel_group, alloc_ok |-> alloc_ok])

\* a signal read on the file the batch is at
read_signal_of_file ==
  /\ hd_i >= 1
  /\ \E read_id \in {Null, Ptr(<<97>>), Ptr(<<98>>)}, alloc_ok \in BOOLEAN :
       Ran_reader(hd_i, SignalEvents(hd_files[hd_i], read_id, alloc_ok),
                  [op |-> "signal", read_id |-> read_id, alloc_ok |-> alloc_ok])

BareBody == Ptr(ReadBody(Null, Null, Null, Null))

HandleFiles ==
  LifecycleFiles
    \cup { Ptr(Container(Null, <<Child(STR_Raw, Null)>>, Ptr(<<>>))),
           Ptr(Container(Null, <<Child(STR_read_ \o <<97>>, BareBody),
                                 Child(STR_read_ \o <<98>>, IntactBody)>>, Null)) }

Init_handles ==
  /\ hd_files \in SeqsUpTo(HandleFiles, MaxFiles)
  /\ hd_i = 0
  /\ open_handles = <<>>
  /\ hd_events = <<>>
  /\ hd_sound = TRUE
  /\ hd_call = NoReaderCall
  /\ file = Null
  /\ CodecIdle
  /\ ChannelIdle
  /\ CalibIdle
  /\ AuxIdle
  /\ SquiggleIdle
  /\ LifeIdle
  /\ DiagIdle
  /\ TailIdle

Next_handles ==
  \/ read_metadata_of_next_file
  \/ read_signal_of_file

SpecHandles == Init_handles /\ [][Next_handles]_vars

\* C24: on every path through the two readers, early failure returns
\* included, each handle acquired in the call is released before the call
\* returns, so no handle on file i is open when file i+1 is opened.
C24_HandlesScoped ==
  /\ open_handles = <<>>
  /\ hd_sound = TRUE

\* a reader call on the second file of a batch opened a Signal dataset,
\* after a first file whose reads group is empty (the early return)
C24_Witness ==
  /\ hd_i = 2
  /\ hd_events # <<>>
  /\ \E k \in 1..Len(hd_events) : hd_events[k] = Open("dataset")
  /\ hd_files[1] = Ptr(Container(Null, <<Child(STR_Raw, Null)>>, Ptr(<<>>)))

\* the reads of a file whose group the metadata reader can open: each of
\* them is a record of the result, whatever its dataset and its enrichment
OpenableReads(f) ==
  IF IsNull(f) THEN 0
  ELSE IF DetectMultiRead(Deref(f))
  THEN Cardinality({n \in 1..Len(Deref(f).root) :
                      /\ HasPrefix(Deref(f).root[n].name, STR_read_)
                      /\ ~IsNull(Deref(f).root[n].body)})
  ELSE IF IsNull(Deref(f).reads) THEN 0
  ELSE Cardinality({n \in 1..Len(Deref(Deref(f).reads)) :
                      ~IsNull(Deref(Deref(f).reads)[n].body)})

\* the reads of a file whose Signal dataset the metadata reader can open
ReadsWithDataset(f) ==
  IF IsNull(f) THEN 0
  ELSE IF DetectMultiRead(Deref(f))
  THEN Cardinality({n \in 1..Len(Deref(f).root) :
                      /\ HasPrefix(Deref(f).root[n].name, STR_read_)
                      /\ ~IsNull(Deref(f).root[n].body)
                      /\ ~IsNull(Deref(Deref(f).root[n].body).signal)})
  ELSE IF IsNull(Deref(f).reads) THEN 0
  ELSE Cardinality({n \in 1..Len(Deref(Deref(f).reads)) :
                      /\ ~IsNull(Deref(Deref(f).reads)[n].body)
                      /\ ~IsNull(Deref(Deref(Deref(f).reads)[n].body).signal)})

EventsOf(events, e) == {k \in 1..Len(events) : events[k] = e}

\* event k lies strictly inside an open dataset: a dataset was opened
\* before it and not closed since, and is closed after it
InsideDataset(events, k) ==
  /\ \E o \in 1..(k - 1) :
       /\ events[o] = Open("dataset")
       /\ \A c \in (o + 1)..(k - 1) : events[c] # Close("dataset")
  /\ \E c \in (k + 1)..Len(events) : events[c] = Close("dataset")

\* C25: in a metadata read the enrichment callback runs strictly after the
\* read's dataset handle is opened and before it is closed, once per read
\* whose dataset opens; and every read whose group opens yields a record,
\* whatever its dataset and the enrichment did, so no outcome removes a
\* record or aborts the remaining reads.
C25_EnrichmentInsideDataset ==
  hd_call.op = "metadata" =>
    /\ \A k \in EventsOf(hd_events, CallEnhancer) : InsideDataset(hd_events, k)
    /\ hd_call.alloc_ok =>
         /\ Cardinality(EventsOf(hd_events, RecordDone)) = OpenableReads(hd_files[hd_i])
         /\ Cardinality(EventsOf(hd_events, CallEnhancer))
              = IF hd_call.enhancer THEN ReadsWithDataset(hd_files[hd_i]) ELSE 0

\* a metadata read with an enhancer over a file whose first read has no
\* Signal dataset and whose second read has one: two records, one call
C25_Witness ==
  /\ hd_call.op = "metadata"
  /\ hd_call.enhancer
  /\ hd_call.alloc_ok
  /\ Cardinality(EventsOf(hd_events, RecordDone)) = 2
  /\ Cardinality(EventsOf(hd_events, CallEnhancer)) = 1

----------------------------------------------------------------------------
(* Export and summary rows.  Both exporters read the metadata array of a   *)
(* file, then fetch the samples of record j with a second pass over the    *)
(* file, read_fast5_signal(file, metadata[j].read_id, ...).                *)

DefaultReadLimit == 3

\* read_fast5_signal as a function of the file's content
FetchSignal(f, read_id, alloc_ok) ==
  IF IsNull(f) THEN SignalResult(Null, 0)
  ELSE IF DetectMultiRead(Deref(f)) THEN read_multi_read_signal(Deref(f), read_id, alloc_ok)
  ELSE read_single_read_signal(Deref(f), read_id, alloc_ok)

\* the read bodies behind the records of the metadata array, in record
\* order: the reads the metadata loops do not skip
RECURSIVE MultiProducers(_)
MultiProducers(root) ==
  IF root = <<>> THEN <<>>
  ELSE IF ~HasPrefix(Head(root).name, STR_read_) THEN MultiProducers(Tail(root))
  ELSE IF IsNull(Head(root).body) THEN MultiProducers(Tail(root))
  ELSE <<Deref(Head(root).body)>> \o MultiProducers(Tail(root))

RECURSIVE SingleProducers(_)
SingleProducers(reads) ==
  IF reads = <<>> THEN <<>>
  ELSE IF IsNull(Head(reads).body) THEN SingleProducers(Tail(reads))
  ELSE <<Deref(Head(reads).body)>> \o SingleProducers(Tail(reads))

Producers(f) ==
  IF IsNull(f) THEN <<>>
  ELSE IF DetectMultiRead(Deref(f)) THEN MultiProducers(Deref(f).root)
  ELSE IF IsNull(Deref(f).reads) THEN <<>>
  ELSE SingleProducers(Deref(Deref(f).reads))

Row(j, samples) == [record |-> j, samples |-> samples]

\* the rows of records j..n of a metadata array: a record whose fetch
\* returns no buffer or no samples is passed over
RECURSIVE RowsFrom(_, _, _, _)
RowsFrom(f, recs, j, n) ==
  IF j > n THEN <<>>
  ELSE LET s == FetchSignal(f, recs[j].read_id, TRUE)
       IN  (IF IsNull(s.signal) \/ s.signal_length = 0 THEN <<>>
            ELSE <<Row(j, Deref(s.signal))>>)
             \o RowsFrom(f, recs, j + 1, n)

\* the "Extract signals" loop of extract_raw_signals for one file
ExtractRows(f, all_reads) ==
  LET r == ReaderResult(f)
  IN  IF IsNull(r.metadata) \/ r.count = 0 THEN <<>>
      ELSE LET recs == Deref(r.metadata)
               reads_to_process ==
                 IF recs[1].is_multi_read /\ ~all_reads /\ r.count > DefaultReadLimit
                 THEN DefaultReadLimit ELSE r.count
           IN  RowsFrom(f, recs, 1, reads_to_process)

\* the loop of write_summary_file for one file
SummaryRows(f) ==
  LET r == ReaderResult(f)
  IN  IF IsNull(r.metadata) \/ r.count = 0 THEN <<>>
      ELSE RowsFrom(f, Deref(r.metadata), 1, r.count)

Exported(op, rows) ==
  /\ ex_op' = op
  /\ ex_rows' = rows
  /\ UNCHANGED ex_file
  /\ UNCHANGED <<codec_vars, channel_vars, calib_vars, aux_vars, sq_vars, life_vars,
                 diag_vars, handle_vars, aggregate_vars>>

\* extract_raw_signals(files, 1, output_file, all_reads, verbose)
extract_raw_signals_rows ==
  /\ alive
  /\ \E all_reads \in BOOLEAN :
       Exported("extract_raw_signals", ExtractRows(ex_file, all_reads))

\* write_summary_file(summary_path, results, results_count, filenames, 1)
write_summary_file_rows ==
  /\ alive
  /\ Exported("write_summary_file", SummaryRows(ex_file))

\* the reads of the export fixtures: read_id absent, "a" or "b"; Signal
\* dataset absent or one of two buffers
ExportBodies ==
  {Ptr(ReadBody(id, Ptr(1), Ptr(0), sig)) :
     id \in {Null} \cup {Ptr(n) : n \in ReadNames},
     sig \in {Null} \cup {Ptr(Dataset(b, TRUE)) : b \in SampleBuffers}}

ExportChildren(prefix, bodies) ==
  [n \in 1..Len(bodies) |-> Child(prefix \o <<96 + n>>, bodies[n])]

ExportFiles ==
  {Null}
    \cup {Ptr(Container(Null, ExportChildren(STR_read_, b), Null)) :
            b \in SeqsUpTo(ExportBodies, MaxReads) \ {<<>>}}
    \cup {Ptr(Container(Null, <<Child(STR_Raw, Null)>>, Ptr(ExportChildren(STR_Read_, b)))) :
            b \in SeqsUpTo(ExportBodies, MaxReads)}

Init_export ==
  /\ ex_file \in ExportFiles
  /\ ex_op = "none"
  /\ ex_rows = <<>>
  /\ file = Null
  /\ CodecIdle
  /\ ChannelIdle
  /\ CalibIdle
  /\ AuxIdle
  /\ SquiggleIdle
  /\ LifeIdle
  /\ DiagIdle
  /\ HandleIdle
  /\ AggregateIdle

Next_export ==
  \/ extract_raw_signals_rows
  \/ write_summary_file_rows

SpecExport == Init_export /\ [][Next_export]_vars

\* C26: the samples exported or summarised under record j are the samples
\* of the read that produced record j, also for reads whose read_id is
\* absent and for reads that share a read_id.
C26_RowsCarryOwnSamples ==
  \A n \in 1..Len(ex_rows) :
    LET body == Producers(ex_file)[ex_rows[n].record]
    IN  /\ ~IsNull(body.signal)
        /\ ex_rows[n].samples = Deref(body.signal).data

----------------------------------------------------------------------------
(* The output directory of batch raw extraction (SpecBatch).               *)

\* an iteration of extract_raw_signals that reaches write_signal_to_file
\* with a name inside the output directory: the file has records, an
\* output is given, and the batch is not a lone single-read file
WritesIntoDirectory ==
  /\ batch_op = "extract_raw_signals"
  /\ batch_i <= Len(files)
  /\ batch_i' = batch_i + 1
  /\ files[batch_i] # "unreadable"
  /\ ~IsNull(output_file)
  /\ ~(Len(files) = 1 /\ files[batch_i] = "single")
  /\ ~dir_failed'

\* C27: in batch raw extraction with an output directory, the directory
\* exists when an output file of any input file is written, whichever
\* input files failed metadata reading, the first one included.
C27_DirectoryBeforeFirstWrite ==
  [][WritesIntoDirectory => dir_exists']_vars

----------------------------------------------------------------------------
(* What the discovery returns (SpecDiscovery).                             *)

\* the entries of a directory that stat reports as regular files and whose
\* name ends in .fast5
RegularMatches(dir) ==
  {e \in Range(dir.entries) : e.kind = "reg" /\ is_fast5_file(e.name)}

\* the paths of the tree at input_path that name a regular file ending in
\* .fast5
RegularFast5Paths ==
  IF input_path.kind = "reg"
  THEN (IF is_fast5_file(input_path.name) THEN {input_path.name} ELSE {})
  ELSE IF input_path.kind # "dir" THEN {}
  ELSE {JoinPath(input_path.name, e.name) : e \in RegularMatches(input_path.node)}
         \cup UNION {{JoinPath(JoinPath(input_path.name, sub.name), e.name) :
                        e \in RegularMatches(sub.node)} :
                     sub \in {e \in Range(input_path.node.entries) : e.kind = "dir"}}

\* the list a recursive search of the same directory returns
RecursiveSet ==
  LET r == find_fast5_files_recursive(input_path.node, input_path.name)
  IN  IF IsNull(r.files) THEN {} ELSE Range(Deref(r.files))

\* C28: every path find_fast5_files returns names a regular file ending in
\* .fast5, in recursive and in non-recursive mode, and the non-recursive
\* result for a directory is a subset of the recursive result for it.
C28_OnlyRegularFast5Files ==
  (disc_pc = "done" /\ alive) =>
    /\ FoundSet \subseteq RegularFast5Paths
    /\ (input_path.kind = "dir" /\ ~recursive) => FoundSet \subseteq RecursiveSet

----------------------------------------------------------------------------
(* The three aggregators over the same batch: calculate_basic_summary and  *)
(* calculate_comprehensive_summary of core/fast5_utils.c, and              *)
(* calc_signal_stats with calc_analysis_summary_with_enhancer of           *)
(* core/fast5_stats.c.  Only the four counters they share are kept.        *)

Counters(successful, failed, reads, samples) ==
  [successful_files |-> successful, failed_files |-> failed,
   total_reads |-> reads, total_samples |-> samples]

RECURSIVE SumSignalLengths(_, _, _)
SumSignalLengths(recs, j, count) ==
  IF j > count THEN 0
  ELSE recs[j].signal_length + SumSignalLengths(recs, j + 1, count)

\* the loop of calculate_basic_summary, from file i
RECURSIVE BasicLoop(_, _, _)
BasicLoop(res, i, acc) ==
  IF i > Len(res) THEN acc
  ELSE BasicLoop(res, i + 1,
         IF ~IsNull(res[i].metadata) /\ res[i].count > 0
         THEN [acc EXCEPT
                 !.successful_files = @ + 1,
                 !.total_reads = @ + res[i].count,
                 !.total_samples = @ + SumSignalLengths(Deref(res[i].metadata), 1, res[i].count)]
         ELSE [acc EXCEPT !.failed_files = @ + 1])

calculate_basic_summary_of(res) == BasicLoop(res, 1, Counters(0, 0, 0, 0))

\* the loop of calculate_comprehensive_summary, from file i
RECURSIVE ComprehensiveLoop(_, _, _)
ComprehensiveLoop(res, i, acc) ==
  IF i > Len(res) THEN acc
  ELSE ComprehensiveLoop(res, i + 1,
         IF res[i].count > 0
         THEN [acc EXCEPT
                 !.successful_files = @ + 1,
                 !.total_reads = @ + res[i].count,
                 !.total_samples =
                    IF IsNull(res[i].metadata) THEN @
                    ELSE @ + SumSignalLengths(Deref(res[i].metadata), 1, res[i].count)]
         ELSE acc)

calculate_comprehensive_summary_of(res) ==
  LET acc == ComprehensiveLoop(res, 1, Counters(0, 0, 0, 0))
  IN  [acc EXCEPT !.failed_files = Len(res) - acc.successful_files]

\* calc_signal_stats, then calc_analysis_summary_with_enhancer
calc_analysis_summary_of(res) ==
  LET st == calc_signal_stats(StatsZero, res, 1)
  IN  Counters(st.successful_files, Len(res) - st.successful_files,
               st.total_reads, st.total_samples)

Aggregated ==
  /\ alive
  /\ UNCHANGED ag_results
  /\ UNCHANGED <<codec_vars, channel_vars, calib_vars, aux_vars, sq_vars, life_vars,
                 diag_vars, handle_vars, export_vars>>

\* calculate_basic_summary(results, filenames, results_count, file_count, ms)
calculate_basic_summary ==
  /\ IsNull(ag_basic)
  /\ ag_basic' = Ptr(calculate_basic_summary_of(ag_results))
  /\ UNCHANGED <<ag_comprehensive, ag_stats>>
  /\ Aggregated

\* calculate_comprehensive_summary(results, filenames, results_count,
\* file_count, ms, threads, command_line)
calculate_comprehensive_summary ==
  /\ IsNull(ag_comprehensive)
  /\ ag_comprehensive' = Ptr(calculate_comprehensive_summary_of(ag_results))
  /\ UNCHANGED <<ag_basic, ag_stats>>
  /\ Aggregated

\* calc_signal_stats(stats, results, results_count, filenames, file_count)
\* and calc_analysis_summary_with_enhancer(stats, file_count, ms, NULL)
calc_signal_stats_summary ==
  /\ IsNull(ag_stats)
  /\ ag_stats' = Ptr(calc_analysis_summary_of(ag_results))
  /\ UNCHANGED <<ag_basic, ag_comprehensive>>
  /\ Aggregated

\* the entries of FileResults, and an entry with a null metadata pointer
\* and a positive count
AggregateEntries ==
  FileResults \cup {[metadata |-> Null, count |-> 1, size_mb |-> sz] : sz \in FileSizesMb}

Init_aggregate ==
  /\ ag_results \in SeqsUpTo(AggregateEntries, MaxFiles)
  /\ ag_basic = Null
  /\ ag_comprehensive = Null
  /\ ag_stats = Null
  /\ file = Null
  /\ CodecIdle
  /\ ChannelIdle
  /\ CalibIdle
  /\ AuxIdle
  /\ SquiggleIdle
  /\ LifeIdle
  /\ DiagIdle
  /\ HandleIdle
  /\ ExportIdle

Next_aggregate ==
  \/ calculate_basic_summary
  \/ calculate_comprehensive_summary
  \/ calc_signal_stats_summary

SpecAggregate == Init_aggregate /\ [][Next_aggregate]_vars

\* C29: the three aggregators report the same successful_files,
\* failed_files, total_reads and total_samples for every input, an entry
\* with a null metadata pointer and a positive count included.
C29_AggregatorsAgree ==
  /\ (~IsNull(ag_basic) /\ ~IsNull(ag_comprehensive)) => ag_basic = ag_comprehensive
  /\ (~IsNull(ag_basic) /\ ~IsNull(ag_stats)) => ag_basic = ag_stats
  /\ (~IsNull(ag_comprehensive) /\ ~IsNull(ag_stats)) => ag_comprehensive = ag_stats

----------------------------------------------------------------------------
(* The model cache of squiggle_kmer (SpecSquiggle).  The cache is keyed by *)
(* model_id, the first IdBufSize - 1 characters of models_dir/model_name;  *)
(* load_kmer_model builds its own path in a buffer of 1024 characters.     *)

\* the tensors squiggle_kmer makes from the model that load_kmer_model
\* returns for the identifier of the call
TensorsOfOwnModel ==
  {Generate(Deref(o.model), sq_params.sequence, sq_params.kmer_size,
            sq_params.sample_rate_khz) :
     o \in {l \in LoadOutcomes(ModelFileAt(sq_params.models_dir, sq_params.model_name)) :
              ~IsNull(l.model)}}

\* C30: the cache never serves a model that was loaded for a different
\* identifier: a tensor returned by a call is made from the model of the
\* call's own models_dir and model_name; and the cache never keeps a model
\* that was freed: after a failed load it is empty.
C30_CacheServesOwnModel ==
  (sq_params # NoParams /\ alive) =>
    /\ ~IsNull(squiggle) => squiggle \in TensorsOfOwnModel
    /\ ~IsNull(cached_model) =>
         \E id \in ModelIdentifiers : cached_model = CacheOf(id).model
====
